---- MODULE Spec2Model ----
(***************************************************************************)
(* Activity-state inference of the desktop progress tracker.               *)
(*                                                                         *)
(*   HybridActivityMonitor  (activity-monitor.js, main process)            *)
(*       library loading, the one-time permission probe, the polling       *)
(*       timers and the boolean isActive they maintain;                    *)
(*   main.js                forwards the monitor's events to the renderer; *)
(*   DesktopProgressController (renderer.js)                               *)
(*       the three-valued activityState (active / idle / inactive) and the *)
(*       timeline segment it writes.                                       *)
(*                                                                         *)
(* Time is wall-clock milliseconds (Date.now()).  The event loop is        *)
(* modelled as a timed system: a timer callback runs at its deadline and   *)
(* the clock moves to the next deadline only when nothing is left to run.  *)
(***************************************************************************)
EXTENDS Integers, Sequences, FiniteSets, TLC

(***************************************************************************)
(* Program constants (milliseconds).                                       *)
(***************************************************************************)
StartupWaitMs     == 2000
IdlePollMs        == 1000
ActiveThresholdMs == 5000
WindowPollMs      == 2000
MousePollMs       == 500
KeyboardPollMs    == 2000
KeyboardIdleMs    == 2000
KeyboardMovePx    == 5
checkInterval     == 5000
StateCheckMs      == 10000
fiveMinutes       == 5 * 60 * 1000
MinuteMs          == 60 * 1000
SegmentMinutes    == 10
MinutesPerDay     == 24 * 60

(***************************************************************************)
(* Bounds of the model.                                                    *)
(***************************************************************************)
\* seconds of wall-clock time explored by the short-horizon specification
MaxSeconds   == 10
\* seconds explored by the long-horizon specification, beyond fiveMinutes
MaxLongExtra == 14
\* seconds explored by the specification of the permission gate
GateSeconds  == 4
\* seconds explored by the specification of stop()
StopSeconds  == 8
\* number of environment events (pointer moves, key presses, window changes)
MaxEnvEvents == 1
\* number of get-native-activity-stats requests besides start()
MaxIpcCalls  == 1

\* the session starts at 09:05:00 local time of day 0
StartClock == (9 * 60 + 5) * MinuteMs

Null == -1

Libs      == {"activeWin", "desktopIdle", "realIdle", "robot"}
LoadOrder == <<"activeWin", "desktopIdle", "realIdle", "robot">>
\* outcome of an adapter's probe call: it returns, throws an Error whose message
\* names a permission problem, throws another Error, or throws a value that has
\* no message (null / undefined)
Outcomes  == {"ok", "perm", "other", "nomsg"}

\* pointer positions (one coordinate, pixels); {x: 0, y: 0} is position 0
Positions == {0, 10}
\* foreground windows the OS may report
Windows   == { [title |-> "A", owner |-> "app1"],
               [title |-> "B", owner |-> "app2"] }
NoWindow  == [title |-> "", owner |-> ""]

\* invocations of checkPermissions(): the one made by start(), and those made
\* by the get-native-activity-stats handler
StartCaller == <<"start", 0>>
IpcCallers  == {"ipc"} \X (1..MaxIpcCalls)
Callers     == {StartCaller} \cup IpcCallers

\* this.permissionsResult === null
NoResult == [ activeWin |-> FALSE, desktopIdle |-> FALSE, realIdle |-> FALSE,
              robotjs |-> FALSE, overall |-> "null" ]
\* no activeWin() call is awaited
NoPending == [title |-> "-", owner |-> "-"]
\* activity-stats.json does not exist
NoStats == [activeTime |-> 0, idleTime |-> 0, lastReset |-> Null]

VARIABLES
    \* ---- environment
    now,            \* Date.now()
    horizon,        \* the clock is not explored beyond this instant
    osLastInput,    \* instant of the last keyboard / pointer input seen by the OS
    mousePos,       \* pointer position
    curWindow,      \* foreground window
    envBudget,      \* environment events left
    libAvail,       \* does import(lib) succeed
    probeOutcome,   \* what the adapter's call does while the probe runs
    \* ---- HybridActivityMonitor
    options,        \* this.options (trackKeyboard)
    mon,            \* isActive, lastActivity, sessionStartTime, stats, ...
    loaded,         \* this.activeWin / desktopIdle / realIdle / robot non-null
    libStage,       \* imports finished by initializeLibraries
    perm,           \* permission cache: checked, result, inProgress, granted, denied
    probePc,        \* position of the running probe
    callers,        \* checkPermissions() invocations
    startPc,        \* position of start()
    timers,         \* deadline of each setInterval / setTimeout, Null when not set
    winPending,     \* result of an activeWin() call a window poll awaits
    adapterCalls,   \* calls made to each adapter: by the probe, by the polls
    sample,         \* the sample the last poll took
    lastQualifying, \* instant of the last qualifying sample
    \* ---- main.js
    activityMonitor, \* the activityMonitor object: currentSession, dailyStats
    mainWindow,      \* mainWindow.isFocused(), and when the focus was lost
    stopped,         \* nativeActivityMonitor.stop() has returned
    statsFile,       \* dailyStats in activity-stats.json, NoStats before the first save
    \* ---- IPC main -> renderer
    ipcQueue,
    \* ---- DesktopProgressController
    rend,           \* activityState, lastActivityTime, activityStats, ...
    realTimelineData,
    localStorage,
    \* ---- browser extension (background.js)
    tracker         \* stored settings, alarms, listeners, handlers in flight

envVars  == <<now, horizon, osLastInput, mousePos, curWindow, envBudget,
              libAvail, probeOutcome>>
monVars  == <<options, mon, loaded, libStage, perm, probePc, callers, startPc,
              timers, winPending, adapterCalls, sample, lastQualifying>>
mainVars == <<activityMonitor, mainWindow, stopped, statsFile>>
rendVars == <<rend, realTimelineData, localStorage>>
desktopVars == <<envVars, monVars, mainVars, ipcQueue, rendVars>>
vars     == <<desktopVars, tracker>>

(***************************************************************************)
(* HybridActivityMonitor: constructor                                      *)
(***************************************************************************)
NewStats ==
    [ totalActiveTime      |-> 0,
      totalSessions        |-> 0,
      averageSessionLength |-> <<0, 1>>,   \* a quotient <<numerator, denominator>>
      mouseMovements       |-> 0,
      keyPresses           |-> 0,
      windowSwitches       |-> 0,
      applicationUsage     |-> [o \in {} |-> 0] ]

MonitorConstructed(t) ==
    [ isActive         |-> FALSE,
      lastActivity     |-> t,
      stats            |-> NewStats,
      lastActiveWindow |-> NoWindow,
      sessionStartTime |-> Null,
      lastMousePos     |-> 0,
      lastKeypressTime |-> Null,
      emitted          |-> <<>> ]

PermConstructed ==
    [ permissionsChecked        |-> FALSE,
      permissionsResult         |-> NoResult,
      permissionCheckInProgress |-> FALSE,
      permissionsGranted        |-> FALSE,
      permissionsDenied         |-> FALSE ]

(***************************************************************************)
(* main.js: the activityMonitor object as the module creates it            *)
(***************************************************************************)
ActivityMonitorCreated(t) ==
    [ isMonitoring |-> FALSE,
      startTime    |-> Null,
      lastActivity |-> Null,
      isActive     |-> FALSE,
      activeTime   |-> 0,
      idleTime     |-> 0,
      lastReset    |-> t \div (24 * 60 * 60 * 1000) ]

(***************************************************************************)
(* background.js: MCPProgressTracker after its constructor and onInstalled *)
(***************************************************************************)
\* the fields of the stored settings that pausing reads and writes
DefaultSettings == [enabled |-> TRUE, paused |-> FALSE, pauseUntil |-> Null]

NoAlarms == [hourlyProgress |-> FALSE, workingHoursCheck |-> FALSE, resumeTracking |-> Null]

TrackerConstructed ==
    [ clock      |-> 0,                 \* hours since the extension was installed
      settings   |-> DefaultSettings,   \* chrome.storage.local 'settings'
      alarms     |-> [NoAlarms EXCEPT !.hourlyProgress = TRUE,
                                      !.workingHoursCheck = TRUE],
      listeners  |-> 0,                 \* onAlarm listeners added by pauseTracking
      popup      |-> DefaultSettings,   \* this.settings of popup.js
      pausePc    |-> "idle",            \* position of pauseTracking
      pauseUntil |-> Null,              \* its local pauseUntil
      pauseHours |-> 0,                 \* its argument
      updatePc   |-> "idle",            \* position of the updateSettings case
      resumePc   |-> "idle",            \* position of resumeTracking
      messages   |-> 0 ]                \* messages the popup has sent

(***************************************************************************)
(* DesktopProgressController: constructor                                  *)
(***************************************************************************)
ControllerConstructed(t) ==
    [ activityState        |-> "active",
      lastActivityTime     |-> t,
      activitySessionStart |-> t,
      uiReady              |-> FALSE,
      activityStats        |-> [ isMonitoring |-> FALSE,
                                 isActive     |-> FALSE,
                                 sessionTime  |-> 0,
                                 dailyActive  |-> 0,
                                 dailyIdle    |-> 0,
                                 totalTime    |-> 0 ] ]

\* the intervals of the monitor, of the controller (stateCheck, statsRefresh,
\* realTimeSave, segmentRefresh) and of main.js (monitor, save, simulate)
TimerNames == {"startWait", "idleCheck", "windowTracking", "activityCheck",
               "keyboardTracking", "statusUpdate", "stateCheck",
               "statsRefresh", "realTimeSave", "segmentRefresh", "monitor", "save",
               "simulate", "simulateLeaked"}

NoTimers == [n \in TimerNames |-> Null]

(***************************************************************************)
(* Events.  Every emitted event and every IPC message has the same shape.  *)
(***************************************************************************)
Event(name, type, isActive, previousState, timestamp) ==
    [ ev |-> name, type |-> type, isActive |-> isActive,
      previousState |-> previousState, timestamp |-> timestamp ]

Emit(m, e) == [m EXCEPT !.emitted = Append(@, e)]

\* a callback starts with nothing emitted
Enter(m) == [m EXCEPT !.emitted = <<>>]

(***************************************************************************)
(* HybridActivityMonitor: session accounting                               *)
(***************************************************************************)
\* a start that counts the session but keeps the start time of the one before
handleActivityStartKeepingTime(m, t) ==
    Emit([m EXCEPT !.sessionStartTime = IF @ = Null THEN t ELSE @,
                   !.stats.totalSessions = @ + 1],
         Event("activity-start", "", TRUE, FALSE, t))

handleActivityStart(m, t) ==
    Emit([m EXCEPT !.sessionStartTime = t,
                   !.stats.totalSessions = @ + 1],
         Event("activity-start", "", TRUE, FALSE, t))

handleActivityEnd(m, t) ==
    IF m.sessionStartTime # Null
    THEN LET sessionLength == t - m.sessionStartTime
             total         == m.stats.totalActiveTime + sessionLength
         IN  Emit([m EXCEPT !.stats.totalActiveTime = total,
                            !.stats.averageSessionLength =
                                <<total, m.stats.totalSessions>>],
                  Event("activity-end", "", FALSE, TRUE, t))
    ELSE m

\* the shared block without its emit
BecomeActiveSilently(m, t) ==
    IF ~m.isActive THEN handleActivityStart([m EXCEPT !.isActive = TRUE], t) ELSE m

\* the block shared by the window poll, the pointer poll and recordActivity:
\* if (!this.isActive) { isActive = true; emit('activity-changed'); handleActivityStart() }
BecomeActive(m, t) ==
    IF ~m.isActive
    THEN handleActivityStart(
             Emit([m EXCEPT !.isActive = TRUE],
                  Event("activity-changed", "", TRUE, m.isActive, t)), t)
    ELSE m

recordActivity(m, type, t) ==
    Emit(BecomeActive([m EXCEPT !.lastActivity = t], t),
         Event("activity", type, TRUE, FALSE, t))

recordKeypressActivity(m, t) ==
    Emit(recordActivity([m EXCEPT !.stats.keyPresses = @ + 1,
                                  !.lastKeypressTime = t], "keyboard", t),
         Event("keyboard-activity", "keyboard", TRUE, FALSE, t))

(***************************************************************************)
(* HybridActivityMonitor: the polling callbacks, as functions of the       *)
(* monitor's fields and the adapter's reading                              *)
(***************************************************************************)
\* startIdleTrackingWithPermissions: idleTime is Null when no adapter answered
IdleCheck(m, idleTime, t) ==
    IF idleTime = Null THEN m
    ELSE LET isCurrentlyActive == idleTime < ActiveThresholdMs
             m1 == IF isCurrentlyActive # m.isActive
                   THEN LET a == Emit([m EXCEPT !.isActive = isCurrentlyActive],
                                      Event("activity-changed", "",
                                            isCurrentlyActive, m.isActive, t))
                        IN  IF isCurrentlyActive THEN handleActivityStart(a, t)
                                                 ELSE handleActivityEnd(a, t)
                   ELSE m
             m2 == IF isCurrentlyActive THEN [m1 EXCEPT !.lastActivity = t] ELSE m1
         IN  Emit(m2, Event("idle-check", "", isCurrentlyActive, FALSE, t))

\* the comparison of the window poll: activeWindow && title !== lastActiveWindow?.title
WindowSwitched(m, activeWindow) ==
    activeWindow # NoWindow /\ activeWindow.title # m.lastActiveWindow.title

UsageOf(usage, appName) ==
    IF appName \in DOMAIN usage THEN usage[appName] ELSE 0

\* startWindowTrackingWithPermissions, after await this.activeWin()
WindowCheck(m, activeWindow, t) ==
    IF WindowSwitched(m, activeWindow)
    THEN LET appName == activeWindow.owner
             usage   == m.stats.applicationUsage
             m1 == [m EXCEPT !.stats.windowSwitches = @ + 1,
                             !.stats.applicationUsage =
                                 (appName :> (UsageOf(usage, appName) + 1)) @@ usage,
                             !.lastActiveWindow = activeWindow,
                             !.lastActivity = t]
         IN  Emit(BecomeActive(m1, t),
                  Event("window-changed", "window", TRUE, FALSE, t))
    ELSE m

\* the comparison of the pointer poll
MouseMoved(m, currentPos) == currentPos # m.lastMousePos

\* startMouseTrackingWithPermissions
MouseCheck(m, currentPos, t) ==
    IF MouseMoved(m, currentPos)
    THEN LET m1 == [m EXCEPT !.stats.mouseMovements = @ + 1,
                             !.lastMousePos = currentPos,
                             !.lastActivity = t]
         IN  Emit(BecomeActive(m1, t),
                  Event("mouse-activity", "mouse", TRUE, FALSE, t))
    ELSE m

Abs(x) == IF x < 0 THEN -x ELSE x

\* startKeyboardTracking's callback: hasRobot / hasIdle say which adapters exist
KeyboardCheck(m, hasRobot, currentPos, hasIdle, idleTime, t) ==
    LET byMouse == hasRobot /\ Abs(currentPos - m.lastMousePos) > KeyboardMovePx
        m1      == IF hasRobot THEN [m EXCEPT !.lastMousePos = currentPos] ELSE m
        byIdle  == /\ ~byMouse
                   /\ hasIdle
                   /\ idleTime # Null
                   /\ idleTime < KeyboardIdleMs
                   /\ t - m.lastKeypressTime > KeyboardIdleMs
    IN  IF byMouse \/ byIdle THEN recordKeypressActivity(m1, t) ELSE m1

(***************************************************************************)
(* HybridActivityMonitor: checkPermissions                                 *)
(***************************************************************************)
Report(w, d, r, b) ==
    LET workingCount == Cardinality({i \in 1..4 : <<w, d, r, b>>[i]})
    IN  [ activeWin   |-> w,
          desktopIdle |-> d,
          realIdle    |-> r,
          robotjs     |-> b,
          overall     |-> IF workingCount = 0 THEN "none"
                          ELSE IF workingCount < 4 THEN "partial"
                          ELSE "full" ]

\* every error of the robotjs probe counts as a permission error
AnyError(outcome) == outcome # "ok"

\* error.message.includes('permission') || includes('accessibility') || includes('denied')
IsPermissionError(outcome) == outcome = "perm"

\* the catch block disables robotjs only
OnlyRobot(lib) == lib = "robot"

\* the catch block of the robotjs probe disables every library
RobotDenialDisables(lib) == TRUE

\* The probe from the desktop-idle test to the end, with activeWin's entry of
\* the report already decided.  ld: the libraries loaded at this moment,
\* out: what each adapter's call does.
ProbeRest(ld, out, winOk) ==
    LET dCall == ld["desktopIdle"]
        dStop == dCall /\ out["desktopIdle"] = "nomsg"
        rCall == ~dStop /\ ld["realIdle"]
        rStop == rCall /\ out["realIdle"] = "nomsg"
        bCall == ~dStop /\ ~rStop /\ ld["robot"]
        bStop == bCall /\ out["robot"] = "nomsg"
        denied == bCall /\ IsPermissionError(out["robot"])
        ok(lib, called) == called /\ out[lib] = "ok"
        keep(lib) == ~(denied /\ RobotDenialDisables(lib))
    IN  [ aborted |-> dStop \/ rStop \/ bStop,
          called  |-> {l \in {"desktopIdle"} : dCall} \cup
                      {l \in {"realIdle"} : rCall} \cup
                      {l \in {"robot"} : bCall},
          denied  |-> denied,
          loaded  |-> [l \in Libs |-> ld[l] /\ keep(l)],
          report  |-> Report(winOk /\ keep("activeWin"),
                             ok("desktopIdle", dCall) /\ keep("desktopIdle"),
                             ok("realIdle", rCall) /\ keep("realIdle"),
                             ok("robot", bCall) /\ keep("robot")) ]

CountCalls(calls, libs, kind) ==
    [l \in Libs |-> IF l \in libs
                    THEN [calls[l] EXCEPT ![kind] = @ + 1]
                    ELSE calls[l]]

\* the probe reaches its end (or throws) in the invocation c
ProbeFinish(c, winOk) ==
    LET R == ProbeRest(loaded, probeOutcome, winOk)
    IN  /\ adapterCalls' = CountCalls(adapterCalls, R.called, "probe")
        /\ IF R.aborted
           THEN /\ perm' = [perm EXCEPT !.permissionCheckInProgress = TRUE]
                /\ probePc' = "aborted"
                /\ callers' = [callers EXCEPT ![c] = [pc |-> "rejected", result |-> NoResult]]
                /\ UNCHANGED loaded
           ELSE /\ perm' = [ permissionsChecked        |-> TRUE,
                             permissionsResult         |-> R.report,
                             permissionCheckInProgress |-> FALSE,
                             permissionsGranted        |-> R.report.overall # "none",
                             permissionsDenied         |-> perm.permissionsDenied \/ R.denied ]
                /\ probePc' = "done"
                /\ callers' = [callers EXCEPT ![c] = [pc |-> "done", result |-> R.report]]
                /\ loaded' = R.loaded

\* the cache test never succeeds
NeverCached(p) == FALSE

\* the cache test at the head of checkPermissions
CacheHit(p) == p.permissionsChecked /\ p.permissionsResult # NoResult

\* an invocation of checkPermissions by c, up to its first await
checkPermissions(c) ==
    IF CacheHit(perm)
    THEN /\ callers' = [callers EXCEPT ![c] = [pc |-> "done", result |-> perm.permissionsResult]]
         /\ UNCHANGED <<perm, probePc, loaded, adapterCalls>>
    ELSE IF perm.permissionCheckInProgress
    THEN /\ callers' = [callers EXCEPT ![c] = [pc |-> "waiting", result |-> NoResult]]
         /\ UNCHANGED <<perm, probePc, loaded, adapterCalls>>
    ELSE IF loaded["activeWin"]
    THEN /\ perm' = [perm EXCEPT !.permissionCheckInProgress = TRUE]
         /\ probePc' = "awaitWin"
         /\ callers' = [callers EXCEPT ![c] = [pc |-> "probing", result |-> NoResult]]
         /\ adapterCalls' = CountCalls(adapterCalls, {"activeWin"}, "probe")
         /\ UNCHANGED loaded
    ELSE ProbeFinish(c, FALSE)

(***************************************************************************)
(* main.js: the monitor's events that are sent on to the renderer          *)
(***************************************************************************)
Forwarded(e) ==
    e.ev \in {"activity-changed", "mouse-activity", "keyboard-activity", "window-changed"}

Channel(e) ==
    IF e.ev = "activity-changed" THEN "activity-status-changed" ELSE "native-activity"

Forward(es) ==
    LET f == SelectSeq(es, Forwarded)
    IN  [i \in 1..Len(f) |-> [f[i] EXCEPT !.ev = Channel(f[i])]]

(***************************************************************************)
(* The event loop                                                          *)
(***************************************************************************)
Due(n) == timers[n] # Null /\ timers[n] <= now

\* setInterval: the next run is one period after this one's deadline
Again(n, period) == [timers EXCEPT ![n] = @ + period]

\* the 100 ms interval of a waiting checkPermissions() call finds the result
Resolvable(c) ==
    /\ callers[c].pc = "waiting"
    /\ ~perm.permissionCheckInProgress
    /\ perm.permissionsResult # NoResult

\* something runs before the clock moves on: a timer at its deadline, a
\* delivered IPC message, a continuation of an await, a pending import
Pending ==
    \/ \E n \in TimerNames : Due(n)
    \/ ipcQueue # <<>>
    \/ winPending # NoPending
    \/ probePc = "awaitWin"
    \/ \E c \in Callers : Resolvable(c)
    \/ startPc = "new"
    \/ startPc = "probing" /\ callers[StartCaller].pc \in {"done", "rejected"}
    \/ libStage < Len(LoadOrder)

Sampled(src, qualifying) == [src |-> src, qualifying |-> qualifying]

Deadlines == {timers[n] : n \in {m \in TimerNames : timers[m] # Null}}

Min(S) == CHOOSE x \in S : \A y \in S : x <= y

\* the clock moves to the next deadline; what the last turn emitted and sampled
\* is not kept
Tick ==
    /\ ~Pending
    /\ Deadlines # {}
    /\ Min(Deadlines) <= horizon
    /\ now' = Min(Deadlines)
    /\ mon' = Enter(mon)
    /\ sample' = Sampled("none", FALSE)
    /\ UNCHANGED <<mainVars, horizon, osLastInput, mousePos, curWindow, envBudget, libAvail,
                   probeOutcome, options, tracker, loaded, libStage, perm, probePc, callers,
                   startPc, timers, winPending, adapterCalls, lastQualifying,
                   ipcQueue, rendVars>>

(***************************************************************************)
(* The environment: the user and the other applications.  An event happens  *)
(* between two turns of the event loop, which is where a poll can tell it   *)
(* from the events before and after it.                                     *)
(***************************************************************************)
EnvFrame == UNCHANGED <<mainVars, now, horizon, libAvail, probeOutcome, monVars, tracker, ipcQueue,
                        rendVars>>

MouseMove(p) ==
    /\ ~Pending
    /\ envBudget > 0
    /\ p # mousePos
    /\ mousePos' = p
    /\ osLastInput' = now
    /\ envBudget' = envBudget - 1
    /\ UNCHANGED curWindow
    /\ EnvFrame

KeyPress ==
    /\ ~Pending
    /\ envBudget > 0
    /\ osLastInput # now
    /\ osLastInput' = now
    /\ envBudget' = envBudget - 1
    /\ UNCHANGED <<mousePos, curWindow>>
    /\ EnvFrame

\* the foreground window changes; no keyboard or pointer input is involved
WindowChange(w) ==
    /\ ~Pending
    /\ envBudget > 0
    /\ w # curWindow
    /\ curWindow' = w
    /\ envBudget' = envBudget - 1
    /\ UNCHANGED <<mousePos, osLastInput>>
    /\ EnvFrame

(***************************************************************************)
(* HybridActivityMonitor: initializeLibraries, start                       *)
(***************************************************************************)
\* one import() of initializeLibraries settles
LoadLibrary ==
    /\ startPc # "new"
    /\ libStage < Len(LoadOrder)
    /\ LET lib == LoadOrder[libStage + 1]
       IN  loaded' = [loaded EXCEPT ![lib] = @ \/ libAvail[lib]]
    /\ libStage' = libStage + 1
    /\ UNCHANGED <<mainVars, envVars, options, tracker, mon, perm, probePc, callers, startPc, timers,
                   winPending, adapterCalls, sample, lastQualifying, ipcQueue, rendVars>>

\* main.js calls start() in the turn that constructs the monitor
StartCall ==
    /\ startPc = "new"
    /\ startPc' = "wait"
    /\ timers' = [timers EXCEPT !["startWait"] = now + StartupWaitMs]
    /\ UNCHANGED <<mainVars, envVars, options, tracker, mon, loaded, libStage, perm, probePc, callers,
                   winPending, adapterCalls, sample, lastQualifying, ipcQueue, rendVars>>

\* the 2 s wait of start() is over: start() calls checkPermissions()
StartWake ==
    /\ Due("startWait")
    /\ startPc = "wait"
    /\ startPc' = "probing"
    /\ timers' = [timers EXCEPT !["startWait"] = Null]
    /\ checkPermissions(StartCaller)
    /\ UNCHANGED <<mainVars, envVars, options, tracker, mon, libStage, winPending, sample,
                   lastQualifying, ipcQueue, rendVars>>

\* which timers start() sets once the probe has answered
StartsTimer(n, granted, ld, trackKeyboard) ==
    CASE n = "idleCheck"        -> granted /\ (ld["desktopIdle"] \/ ld["realIdle"])
      [] n = "windowTracking"   -> granted /\ ld["activeWin"]
      [] n = "activityCheck"    -> granted /\ ld["robot"]
      [] n = "keyboardTracking" -> granted /\ ld["robot"] /\ trackKeyboard
      [] n = "statusUpdate"     -> TRUE
      [] OTHER                  -> FALSE

Period(n) ==
    CASE n = "idleCheck"        -> IdlePollMs
      [] n = "windowTracking"   -> WindowPollMs
      [] n = "activityCheck"    -> MousePollMs
      [] n = "keyboardTracking" -> KeyboardPollMs
      [] n = "statusUpdate"     -> checkInterval
      [] n = "stateCheck"       -> StateCheckMs
      [] OTHER                  -> StartupWaitMs

\* start() after await this.checkPermissions()
StartContinue ==
    /\ startPc = "probing"
    /\ callers[StartCaller].pc = "done"
    /\ startPc' = "started"
    /\ timers' = [n \in TimerNames |->
                     IF StartsTimer(n, perm.permissionsGranted, loaded, options.trackKeyboard)
                     THEN now + Period(n) ELSE timers[n]]
    /\ mon' = LET m == Enter(mon)
                  k == IF StartsTimer("keyboardTracking", perm.permissionsGranted,
                                      loaded, options.trackKeyboard)
                       THEN [m EXCEPT !.stats.keyPresses = 0, !.lastKeypressTime = now]
                       ELSE m
              IN  Emit(k, Event("started", "", FALSE, FALSE, now))
    /\ UNCHANGED <<mainVars, envVars, options, tracker, loaded, libStage, perm, probePc, callers,
                   winPending, adapterCalls, sample, lastQualifying, ipcQueue, rendVars>>

\* checkPermissions() rejected: start() rejects and main.js logs the failure
StartFail ==
    /\ startPc = "probing"
    /\ callers[StartCaller].pc = "rejected"
    /\ startPc' = "failed"
    /\ UNCHANGED <<mainVars, envVars, options, tracker, mon, loaded, libStage, perm, probePc, callers,
                   timers, winPending, adapterCalls, sample, lastQualifying,
                   ipcQueue, rendVars>>

(***************************************************************************)
(* checkPermissions: the other invocations and the continuations           *)
(***************************************************************************)
\* ipcMain.handle('get-native-activity-stats'): await monitor.checkPermissions()
GetNativeActivityStats(c) ==
    /\ startPc # "new"
    /\ callers[c].pc = "idle"
    /\ checkPermissions(c)
    /\ UNCHANGED <<mainVars, envVars, options, tracker, mon, libStage, startPc, timers, winPending,
                   sample, lastQualifying, ipcQueue, rendVars>>

\* await this.activeWin() of the probe settles
ProbeResume ==
    /\ probePc = "awaitWin"
    /\ \E c \in Callers :
          /\ callers[c].pc = "probing"
          /\ IF probeOutcome["activeWin"] = "nomsg"
             THEN /\ probePc' = "aborted"
                  /\ callers' = [callers EXCEPT ![c] = [pc |-> "rejected", result |-> NoResult]]
                  /\ UNCHANGED <<perm, loaded, adapterCalls>>
             ELSE ProbeFinish(c, probeOutcome["activeWin"] = "ok")
    /\ UNCHANGED <<mainVars, envVars, options, tracker, mon, libStage, startPc, timers, winPending,
                   sample, lastQualifying, ipcQueue, rendVars>>

\* the 100 ms interval of a waiting invocation
WaiterResolve(c) ==
    /\ Resolvable(c)
    /\ callers' = [callers EXCEPT ![c] = [pc |-> "done", result |-> perm.permissionsResult]]
    /\ UNCHANGED <<mainVars, envVars, options, tracker, mon, loaded, libStage, perm, probePc, startPc,
                   timers, winPending, adapterCalls, sample, lastQualifying,
                   ipcQueue, rendVars>>

(***************************************************************************)
(* HybridActivityMonitor: the polling timers                               *)
(***************************************************************************)
\* what the OS idle counter reads
OsIdleTime == now - osLastInput

\* the idle time the callbacks obtain: real-idle first, desktop-idle otherwise
IdleReading(ld) ==
    IF ld["realIdle"] \/ ld["desktopIdle"] THEN OsIdleTime ELSE Null

\* the adapters an idle reading calls
IdleAdapters(ld) ==
    IF ld["realIdle"] THEN {"realIdle"}
    ELSE IF ld["desktopIdle"] THEN {"desktopIdle"} ELSE {}

\* a poll callback ran: m is the monitor after it, q says whether its sample
\* qualified (pointer moved, window changed, idle counter below the threshold)
PollDone(m, src, q) ==
    /\ mon' = m
    /\ ipcQueue' = ipcQueue \o Forward(m.emitted)
    /\ sample' = Sampled(src, q)
    /\ lastQualifying' = IF q THEN now ELSE lastQualifying

IdlePoll ==
    /\ Due("idleCheck")
    /\ timers' = Again("idleCheck", IdlePollMs)
    /\ adapterCalls' = CountCalls(adapterCalls, IdleAdapters(loaded), "poll")
    /\ LET idleTime == IdleReading(loaded)
       IN  PollDone(IdleCheck(Enter(mon), idleTime, now), "idle",
                    idleTime # Null /\ idleTime < ActiveThresholdMs)
    /\ UNCHANGED <<mainVars, envVars, options, tracker, loaded, libStage, perm, probePc, callers,
                   startPc, winPending, rendVars>>

\* the window poll up to await this.activeWin()
WindowPollCall ==
    /\ Due("windowTracking")
    /\ timers' = Again("windowTracking", WindowPollMs)
    /\ adapterCalls' = CountCalls(adapterCalls, {"activeWin"}, "poll")
    /\ winPending' = curWindow
    /\ UNCHANGED <<mainVars, envVars, options, tracker, mon, loaded, libStage, perm, probePc, callers,
                   startPc, sample, lastQualifying, ipcQueue, rendVars>>

\* the window poll after await this.activeWin()
WindowPollResume ==
    /\ winPending # NoPending
    /\ winPending' = NoPending
    /\ PollDone(WindowCheck(Enter(mon), winPending, now), "window",
                WindowSwitched(mon, winPending))
    /\ UNCHANGED <<mainVars, envVars, options, tracker, loaded, libStage, perm, probePc, callers,
                   startPc, timers, adapterCalls, rendVars>>

MousePoll ==
    /\ Due("activityCheck")
    /\ timers' = Again("activityCheck", MousePollMs)
    /\ adapterCalls' = CountCalls(adapterCalls, {"robot"}, "poll")
    /\ PollDone(MouseCheck(Enter(mon), mousePos, now), "pointer",
                MouseMoved(mon, mousePos))
    /\ UNCHANGED <<mainVars, envVars, options, tracker, loaded, libStage, perm, probePc, callers,
                   startPc, winPending, rendVars>>

KeyboardPoll ==
    /\ Due("keyboardTracking")
    /\ timers' = Again("keyboardTracking", KeyboardPollMs)
    /\ LET hasIdle == loaded["desktopIdle"] \/ loaded["realIdle"]
           m == KeyboardCheck(Enter(mon), loaded["robot"], mousePos,
                              hasIdle, IdleReading(loaded), now)
           byMouse == loaded["robot"] /\ Abs(mousePos - mon.lastMousePos) > KeyboardMovePx
       IN  /\ PollDone(m, "keyboard", m.stats.keyPresses # mon.stats.keyPresses)
           /\ adapterCalls' = CountCalls(adapterCalls,
                                  {l \in {"robot"} : loaded["robot"]} \cup
                                  (IF byMouse THEN {} ELSE IdleAdapters(loaded)), "poll")
    /\ UNCHANGED <<mainVars, envVars, options, tracker, loaded, libStage, perm, probePc, callers,
                   startPc, winPending, rendVars>>

(***************************************************************************)
(* HybridActivityMonitor: polls in which an adapter call throws.  thrown is *)
(* the set of calls of the callback that throw; each is caught by the       *)
(* try/catch around it.                                                     *)
(***************************************************************************)
\* the adapter calls an idle poll can make
IdleCalls == {"getIdleSeconds", "getIdleState", "getIdleTime"}

\* the reading real-idle gives the idle poll: getIdleSeconds assigns idleTime
\* before getIdleState is called
RealIdleReading(ld, thrown) ==
    IF ld["realIdle"] /\ "getIdleSeconds" \notin thrown THEN OsIdleTime ELSE Null

\* a poll in which every reading fails counts as a long idle time
IdleReadingOrIdle(ld, thrown) ==
    LET r1 == RealIdleReading(ld, thrown)
    IN  IF r1 = Null /\ ld["desktopIdle"] /\ "getIdleTime" \notin thrown
        THEN OsIdleTime
        ELSE IF r1 = Null THEN ActiveThresholdMs ELSE r1

\* the idle time the idle poll ends up with: desktop-idle is asked only when
\* real-idle gave nothing
IdleReadingThrowing(ld, thrown) ==
    LET r1 == RealIdleReading(ld, thrown)
    IN  IF r1 = Null /\ ld["desktopIdle"] /\ "getIdleTime" \notin thrown
        THEN OsIdleTime
        ELSE r1

\* the calls in thrown are calls the idle poll makes
IdleCallsMade(ld, thrown) ==
    /\ thrown # {}
    /\ "getIdleSeconds" \in thrown => ld["realIdle"]
    /\ "getIdleState" \in thrown => ld["realIdle"] /\ "getIdleSeconds" \notin thrown
    /\ "getIdleTime" \in thrown => ld["desktopIdle"] /\ RealIdleReading(ld, thrown) = Null

\* no call of the idle poll returned an idle time
NoIdleReading(ld, thrown) ==
    /\ RealIdleReading(ld, thrown) = Null
    /\ ~(ld["desktopIdle"] /\ "getIdleTime" \notin thrown)

\* how a poll with a throwing call is recorded: no reading was left, or one was
Thrown(dropped) == IF dropped THEN "thrown-dropped" ELSE "thrown-read"

IdlePollThrows(thrown) ==
    /\ Due("idleCheck")
    /\ IdleCallsMade(loaded, thrown)
    /\ timers' = Again("idleCheck", IdlePollMs)
    /\ adapterCalls' = CountCalls(adapterCalls, IdleAdapters(loaded), "poll")
    /\ LET idleTime == IdleReadingThrowing(loaded, thrown)
       IN  PollDone(IdleCheck(Enter(mon), idleTime, now),
                    Thrown(NoIdleReading(loaded, thrown)),
                    idleTime # Null /\ idleTime < ActiveThresholdMs)
    /\ UNCHANGED <<mainVars, envVars, options, tracker, loaded, libStage, perm, probePc, callers,
                   startPc, winPending, rendVars>>

\* await this.activeWin() rejects: the catch of the callback logs it
WindowPollThrows ==
    /\ Due("windowTracking")
    /\ timers' = Again("windowTracking", WindowPollMs)
    /\ adapterCalls' = CountCalls(adapterCalls, {"activeWin"}, "poll")
    /\ PollDone(Enter(mon), Thrown(TRUE), FALSE)
    /\ UNCHANGED <<mainVars, envVars, options, tracker, loaded, libStage, perm, probePc, callers,
                   startPc, winPending, rendVars>>

\* robot.getMousePos() throws in the pointer poll
MousePollThrows ==
    /\ Due("activityCheck")
    /\ timers' = Again("activityCheck", MousePollMs)
    /\ adapterCalls' = CountCalls(adapterCalls, {"robot"}, "poll")
    /\ PollDone(Enter(mon), Thrown(TRUE), FALSE)
    /\ UNCHANGED <<mainVars, envVars, options, tracker, loaded, libStage, perm, probePc, callers,
                   startPc, winPending, rendVars>>

\* the keyboard poll: getMousePos throws (lastMousePos is not written), or the
\* idle call throws (idleTime stays -1), or both
KeyboardPollThrows(posThrows, idleThrows) ==
    /\ Due("keyboardTracking")
    /\ posThrows \/ idleThrows
    /\ posThrows => loaded["robot"]
    /\ LET hasIdle == loaded["desktopIdle"] \/ loaded["realIdle"]
           byMouse == /\ loaded["robot"] /\ ~posThrows
                      /\ Abs(mousePos - mon.lastMousePos) > KeyboardMovePx
           reading == IF idleThrows THEN Null ELSE IdleReading(loaded)
           m == KeyboardCheck(Enter(mon), loaded["robot"] /\ ~posThrows, mousePos,
                              hasIdle, reading, now)
       IN  /\ idleThrows => hasIdle /\ ~byMouse
           /\ timers' = Again("keyboardTracking", KeyboardPollMs)
           /\ PollDone(m, Thrown((posThrows \/ ~loaded["robot"]) /\ (idleThrows \/ ~hasIdle)),
                       m.stats.keyPresses # mon.stats.keyPresses)
           /\ adapterCalls' = CountCalls(adapterCalls,
                                  {l \in {"robot"} : loaded["robot"]} \cup
                                  (IF byMouse THEN {} ELSE IdleAdapters(loaded)), "poll")
    /\ UNCHANGED <<mainVars, envVars, options, tracker, loaded, libStage, perm, probePc, callers,
                   startPc, winPending, rendVars>>

\* startStatusUpdates: emits status-update, which main.js does not forward
StatusUpdate ==
    /\ Due("statusUpdate")
    /\ timers' = Again("statusUpdate", checkInterval)
    /\ mon' = Emit(Enter(mon), Event("status-update", "", mon.isActive, FALSE, now))
    /\ UNCHANGED <<mainVars, envVars, options, tracker, loaded, libStage, perm, probePc, callers,
                   startPc, winPending, adapterCalls, sample, lastQualifying,
                   ipcQueue, rendVars>>

(***************************************************************************)
(* DesktopProgressController                                               *)
(***************************************************************************)
\* new Date(t).getHours() and getMinutes(); instants count from a local midnight
getHours(t) == (t \div (60 * MinuteMs)) % 24

getMinutes(t) == (t \div MinuteMs) % 60

\* the segment index computed from the minutes alone
SegmentOfTheHour(t) == getMinutes(t) \div SegmentMinutes

\* getCurrentSegment at the instant t
getCurrentSegment(t) == (getHours(t) * 60 + getMinutes(t)) \div SegmentMinutes

\* new Date().toDateString() at the instant t
Today(t) == t \div (MinutesPerDay * MinuteMs)

\* a write that keeps nothing but the segment it sets
OnlySegment(tl, seg, state) == (seg :> state)

\* realTimelineData.set(key, state)
SetSegment(tl, seg, state) == (seg :> state) @@ tl

\* a save that stores nothing
NotSaved(store, tl, t) == store

\* saveRealTimelineData
Saved(store, tl, t) == (Today(t) :> tl) @@ store

\* the state updateActivityTimeline and recordActivityEvent write
TimelineState(isActive, lastActivityTime, t) ==
    IF isActive THEN "active"
    ELSE IF t - lastActivityTime < fiveMinutes THEN "idle" ELSE "inactive"

\* updateActivityStatusDisplay: the controller's fused state
updateActivityStatusDisplay(r, isActive, t) ==
    IF isActive
    THEN [r EXCEPT !.lastActivityTime = t, !.activityState = "active"]
    ELSE IF r.activityState = "active"
         THEN [r EXCEPT !.activityState = "idle"]
         ELSE r

updateActivityOverviewFromStatusChange(r, isActive, t) ==
    IF ~r.uiReady THEN r
    ELSE LET wasActive == r.activityStats.isActive
             ended     == wasActive /\ ~isActive
             begun     == ~wasActive /\ isActive
             start     == IF begun THEN t ELSE r.activitySessionStart
             daily     == IF ended
                          THEN r.activityStats.dailyActive + (t - r.activitySessionStart)
                          ELSE r.activityStats.dailyActive
         IN  [r EXCEPT !.activitySessionStart = start,
                       !.activityStats =
                           [ isMonitoring |-> TRUE,
                             isActive     |-> isActive,
                             sessionTime  |-> IF isActive THEN t - start ELSE 0,
                             dailyActive  |-> daily,
                             dailyIdle    |-> @.dailyIdle,
                             totalTime    |-> IF ended THEN daily + @.dailyIdle
                                                       ELSE @.totalTime ] ]

\* updateNativeActivityDisplay and updateActivityOverviewFromNativeActivity
updateFromNativeActivity(r, t) ==
    IF ~r.uiReady THEN r
    ELSE LET start == IF r.activityStats.isActive THEN r.activitySessionStart ELSE t
         IN  [r EXCEPT !.lastActivityTime = t,
                       !.activityState = "active",
                       !.activitySessionStart = start,
                       !.activityStats = [@ EXCEPT !.isActive = TRUE,
                                                   !.sessionTime = t - start,
                                                   !.isMonitoring = TRUE] ]

IpcFrame == UNCHANGED <<mainVars, envVars, monVars, tracker>>

\* onActivityStatusChanged
OnActivityStatusChanged ==
    /\ ipcQueue # <<>>
    /\ Head(ipcQueue).ev = "activity-status-changed"
    /\ ipcQueue' = Tail(ipcQueue)
    /\ LET data == Head(ipcQueue)
           r1   == updateActivityStatusDisplay(rend, data.isActive, now)
           tl   == SetSegment(realTimelineData, getCurrentSegment(now),
                              TimelineState(data.isActive, r1.lastActivityTime, now))
       IN  /\ rend' = updateActivityOverviewFromStatusChange(r1, data.isActive, now)
           /\ realTimelineData' = tl
           /\ localStorage' = Saved(localStorage, tl, now)
    /\ IpcFrame

\* onNativeActivity
OnNativeActivity ==
    /\ ipcQueue # <<>>
    /\ Head(ipcQueue).ev = "native-activity"
    /\ ipcQueue' = Tail(ipcQueue)
    /\ rend' = updateFromNativeActivity(rend, now)
    /\ IF rend.uiReady
       THEN LET tl == SetSegment(realTimelineData, getCurrentSegment(now), "active")
            IN  /\ realTimelineData' = tl
                /\ localStorage' = Saved(localStorage, tl, now)
       ELSE UNCHANGED <<realTimelineData, localStorage>>
    /\ IpcFrame

\* the state check without its test of the current state
StateCheckAnyState(r, t) ==
    IF t - r.lastActivityTime >= fiveMinutes
    THEN [r EXCEPT !.activityState = "inactive"]
    ELSE r

\* the transition the 10 s interval of startActivityStateUpdates makes
StateCheck(r, t) ==
    IF r.activityState = "idle" /\ t - r.lastActivityTime >= fiveMinutes
    THEN [r EXCEPT !.activityState = "inactive"]
    ELSE r

\* startActivityStateUpdates: the 10 s interval
ActivityStateUpdate ==
    /\ Due("stateCheck")
    /\ timers' = Again("stateCheck", StateCheckMs)
    /\ rend' = StateCheck(rend, now)
    /\ IF rend'.activityState # rend.activityState
       THEN \* updateCurrentSegmentState
            LET seg == getCurrentSegment(now)
                tl  == SetSegment(realTimelineData, seg, rend'.activityState)
                had == seg \in DOMAIN realTimelineData
                          /\ realTimelineData[seg] = rend'.activityState
            IN  /\ realTimelineData' = tl
                /\ localStorage' = IF had THEN localStorage
                                          ELSE Saved(localStorage, tl, now)
       ELSE UNCHANGED <<realTimelineData, localStorage>>
    /\ UNCHANGED <<mainVars, envVars, options, tracker, mon, loaded, libStage, perm, probePc, callers,
                   startPc, winPending, adapterCalls, sample, lastQualifying, ipcQueue>>

\* init() reaches this.uiReady = true
UiReady ==
    /\ ~Pending
    /\ ~rend.uiReady
    /\ rend' = [rend EXCEPT !.uiReady = TRUE]
    /\ UNCHANGED <<mainVars, envVars, monVars, tracker, ipcQueue, realTimelineData, localStorage>>

(***************************************************************************)
(* main.js: the activity monitoring of the main process                    *)
(***************************************************************************)
\* setInterval(checkActivity, 10000)
MonitorCheckMs == 10000
\* checkActivity: 1 minute of inactivity = idle
MonitorIdleMs  == 60000
\* checkActivity: the seconds added to the daily totals by one run
MonitorStepS   == 10
\* setInterval(saveActivityStats, 60000)
MonitorSaveMs  == 60000
\* setInterval(simulateActivityDetection, 5000)
SimulateMs     == 5000
\* the setTimeout that constructs the HybridActivityMonitor after whenReady
MonitorDelayMs == 3000

\* resetDailyStats at the instant t
resetDailyStats(am, t) ==
    [am EXCEPT !.activeTime = 0, !.idleTime = 0, !.lastReset = Today(t)]

\* loadActivityStats: the file is read only if it is from today
loadActivityStats(am, file, t) ==
    IF file # NoStats /\ file.lastReset = Today(t)
    THEN [am EXCEPT !.activeTime = file.activeTime, !.idleTime = file.idleTime,
                    !.lastReset = file.lastReset]
    ELSE am

\* the activityMonitor object after startActivityMonitoring ran at t
MonitoringStarted(am, file, t) ==
    IF am.isMonitoring THEN am
    ELSE LET a1 == [am EXCEPT !.isMonitoring = TRUE, !.startTime = t,
                              !.lastActivity = t]
             a2 == IF a1.lastReset # Today(t) THEN resetDailyStats(a1, t) ELSE a1
         IN  loadActivityStats(a2, file, t)

\* the intervals startActivityMonitoring creates at t
MonitoringTimers(tm, t) ==
    [tm EXCEPT !["monitor"] = t + MonitorCheckMs, !["save"] = t + MonitorSaveMs,
               !["simulate"] = t + SimulateMs]

MainFrame == UNCHANGED <<envVars, options, tracker, mon, loaded, libStage, perm, probePc, callers,
                         startPc, winPending, adapterCalls, sample, lastQualifying,
                         stopped, rendVars>>

\* the message checkActivity sends on 'activity-update'
ActivityUpdate(am, t) ==
    [ ev          |-> "activity-update",
      isActive    |-> am.isActive,
      sessionTime |-> t - am.startTime,
      dailyActive |-> am.activeTime,
      dailyIdle   |-> am.idleTime ]

\* checkActivity at the instant t
checkActivity(am, t) ==
    LET isIdle == t - am.lastActivity > MonitorIdleMs
        a1     == IF ~isIdle
                  THEN [am EXCEPT !.isActive = TRUE, !.lastActivity = t]
                  ELSE [am EXCEPT !.isActive = FALSE]
    IN  IF a1.isActive
        THEN [a1 EXCEPT !.activeTime = @ + MonitorStepS]
        ELSE [a1 EXCEPT !.idleTime = @ + MonitorStepS]

\* the 10 s interval of startActivityMonitoring
CheckActivity ==
    /\ Due("monitor")
    /\ timers' = Again("monitor", MonitorCheckMs)
    /\ activityMonitor' = checkActivity(activityMonitor, now)
    /\ ipcQueue' = Append(ipcQueue, ActivityUpdate(activityMonitor', now))
    /\ UNCHANGED <<mainWindow, statsFile>>
    /\ MainFrame

\* the 5 s interval: simulateActivityDetection
SimulateActivityDetection ==
    /\ Due("simulate")
    /\ timers' = Again("simulate", SimulateMs)
    /\ activityMonitor' = IF mainWindow.focused
                          THEN [activityMonitor EXCEPT !.lastActivity = now]
                          ELSE activityMonitor
    /\ UNCHANGED <<mainWindow, statsFile, ipcQueue>>
    /\ MainFrame

\* the 60 s interval: saveActivityStats
SaveActivityStats ==
    /\ Due("save")
    /\ timers' = Again("save", MonitorSaveMs)
    /\ statsFile' = [ activeTime |-> activityMonitor.activeTime,
                      idleTime   |-> activityMonitor.idleTime,
                      lastReset  |-> activityMonitor.lastReset ]
    /\ UNCHANGED <<activityMonitor, mainWindow, ipcQueue>>
    /\ MainFrame

\* the user gives the focus to another application, or back to the tracker:
\* mainWindow.on('blur') does nothing, on('focus') calls simulateActivityDetection
FocusChange ==
    /\ ~Pending
    /\ envBudget > 0
    /\ envBudget' = envBudget - 1
    /\ mainWindow' = IF mainWindow.focused
                     THEN [focused |-> FALSE, blurredAt |-> now]
                     ELSE [focused |-> TRUE, blurredAt |-> mainWindow.blurredAt]
    /\ activityMonitor' = IF mainWindow.focused THEN activityMonitor
                          ELSE [activityMonitor EXCEPT !.lastActivity = now]
    /\ UNCHANGED <<stopped, statsFile, now, horizon, osLastInput,
                   mousePos, curWindow, libAvail, probeOutcome, monVars, tracker, ipcQueue,
                   rendVars>>

(***************************************************************************)
(* DesktopProgressController: the timeline                                 *)
(***************************************************************************)
\* startActivityStateUpdates: the period of the interval that refreshes the stats
StatsRefreshMs   == 60000
\* startRealTimeUpdates: the period of the saving interval
RealTimeSaveMs   == 60000
\* startRealTimeUpdates: the period of the refreshing interval
SegmentRefreshMs == 10000
\* fillMissingSegments: the number of segments looked back at
FillSegments     == 6
\* fillMissingSegments: tenSeconds
tenSeconds       == 10 * 1000
\* fillMissingSegments: only segments within the last 30 minutes are filled
FillWindowMs     == 30 * 60 * 1000

\* the start of the day of t, then setMinutes(i * 10)
SegmentStart(i, t) == Today(t) * MinutesPerDay * MinuteMs + i * SegmentMinutes * MinuteMs

Max(a, b) == IF a >= b THEN a ELSE b

\* the state fillMissingSegments gives segment i
FillState(i, lastActivityTime, t) ==
    LET timeSinceActivity == t - lastActivityTime
        atSegment == Max(0, timeSinceActivity - (t - SegmentStart(i, t)))
    IN  IF atSegment < tenSeconds THEN "active"
        ELSE IF atSegment < fiveMinutes THEN "idle" ELSE "inactive"

\* the segments the loop of fillMissingSegments visits
FillRange(t) ==
    LET currentSegment  == getCurrentSegment(t)
        segmentsToCheck == IF FillSegments <= currentSegment + 1
                           THEN FillSegments ELSE currentSegment + 1
    IN  Max(0, currentSegment - segmentsToCheck + 1) .. currentSegment

\* the segments fillMissingSegments sets: any visited segment in the window
FilledAnyway(tl, t) ==
    {i \in FillRange(t) : t - SegmentStart(i, t) < FillWindowMs}

\* the segments fillMissingSegments sets: those without data, in the window
Filled(tl, t) ==
    {i \in FillRange(t) : i \notin DOMAIN tl /\ t - SegmentStart(i, t) < FillWindowMs}

fillMissingSegments(tl, lastActivityTime, t) ==
    [i \in Filled(tl, t) |-> FillState(i, lastActivityTime, t)] @@ tl

\* updateCurrentSegmentState: the fused state is stored, and saved if it differs
updateCurrentSegmentState(r, tl, store, t) ==
    LET seg  == getCurrentSegment(t)
        same == seg \in DOMAIN tl /\ tl[seg] = r.activityState
        tl1  == SetSegment(tl, seg, r.activityState)
    IN  [tl |-> tl1, store |-> IF same THEN store ELSE Saved(store, tl1, t)]

\* updateActivityTimeline(activityStats) as updateActivityUI calls it
updateActivityUI(r, tl, store, t) ==
    LET tl1 == SetSegment(tl, getCurrentSegment(t),
                          TimelineState(r.activityStats.isActive, r.lastActivityTime, t))
    IN  [tl |-> tl1, store |-> Saved(store, tl1, t)]

\* loadRealTimelineData
loadRealTimelineData(store, t) ==
    IF Today(t) \in DOMAIN store THEN store[Today(t)] ELSE [s \in {} |-> "no-data"]

RendFrame == UNCHANGED <<mainVars, envVars, options, tracker, mon, loaded, libStage, perm, probePc,
                         callers, startPc, winPending, adapterCalls, sample,
                         lastQualifying>>

\* onActivityUpdate: updateActivityStats(activityData)
OnActivityUpdate ==
    /\ ipcQueue # <<>>
    /\ Head(ipcQueue).ev = "activity-update"
    /\ ipcQueue' = Tail(ipcQueue)
    /\ LET data == Head(ipcQueue)
           r1   == [rend EXCEPT !.activityStats =
                       [@ EXCEPT !.isActive = data.isActive,
                                 !.sessionTime = data.sessionTime,
                                 !.dailyActive = data.dailyActive,
                                 !.dailyIdle = data.dailyIdle]]
           w    == updateActivityUI(r1, realTimelineData, localStorage, now)
       IN  /\ rend' = r1
           /\ realTimelineData' = w.tl
           /\ localStorage' = w.store
    /\ UNCHANGED timers
    /\ RendFrame

\* startActivityStateUpdates: the minute interval, refreshActivityStats
StatsRefresh ==
    /\ Due("statsRefresh")
    /\ timers' = Again("statsRefresh", StatsRefreshMs)
    /\ IF rend.uiReady
       THEN LET w == updateActivityUI(rend, realTimelineData, localStorage, now)
            IN  /\ realTimelineData' = w.tl
                /\ localStorage' = w.store
       ELSE UNCHANGED <<realTimelineData, localStorage>>
    /\ UNCHANGED <<rend, ipcQueue>>
    /\ RendFrame

\* startRealTimeUpdates: the minute interval saves, then fills the gaps
RealTimeSave ==
    /\ Due("realTimeSave")
    /\ timers' = Again("realTimeSave", RealTimeSaveMs)
    /\ IF rend.uiReady
       THEN /\ localStorage' = Saved(localStorage, realTimelineData, now)
            /\ realTimelineData' =
                   fillMissingSegments(realTimelineData, rend.lastActivityTime, now)
       ELSE UNCHANGED <<realTimelineData, localStorage>>
    /\ UNCHANGED <<rend, ipcQueue>>
    /\ RendFrame

\* startRealTimeUpdates: the 10 s interval
SegmentRefresh ==
    /\ Due("segmentRefresh")
    /\ timers' = Again("segmentRefresh", SegmentRefreshMs)
    /\ IF rend.uiReady
       THEN LET w == updateCurrentSegmentState(rend, realTimelineData, localStorage, now)
            IN  /\ realTimelineData' = w.tl
                /\ localStorage' = w.store
       ELSE UNCHANGED <<realTimelineData, localStorage>>
    /\ UNCHANGED <<rend, ipcQueue>>
    /\ RendFrame

\* the user opens the activity tab: initializeActivityTab loads the stored
\* timeline, then refreshActivityStats redraws; the two requests for the
\* monitor's statistics find the cached permission report
OpenActivityTab ==
    /\ ~Pending
    /\ envBudget > 0
    /\ CacheHit(perm)
    /\ envBudget' = envBudget - 1
    /\ LET tl == loadRealTimelineData(localStorage, now)
           w  == updateActivityUI(rend, tl, localStorage, now)
       IN  IF rend.uiReady
           THEN realTimelineData' = w.tl /\ localStorage' = w.store
           ELSE realTimelineData' = tl /\ UNCHANGED localStorage
    /\ UNCHANGED <<mainVars, now, horizon, osLastInput, mousePos, curWindow, libAvail,
                   probeOutcome, monVars, tracker, ipcQueue, rend>>

(***************************************************************************)
(* Specifications                                                          *)
(***************************************************************************)
\* new HybridActivityMonitor(options), nothing started yet
MonitorNew ==
    /\ options = [trackKeyboard |-> TRUE]
    /\ mon = MonitorConstructed(now)
    /\ loaded = [l \in Libs |-> FALSE]
    /\ libStage = 0
    /\ perm = PermConstructed
    /\ probePc = "idle"
    /\ callers = [c \in Callers |-> [pc |-> "idle", result |-> NoResult]]
    /\ startPc = "new"
    /\ winPending = NoPending
    /\ adapterCalls = [l \in Libs |-> [probe |-> 0, poll |-> 0]]
    /\ sample = Sampled("none", FALSE)
    /\ lastQualifying = Null
    /\ ipcQueue = <<>>
    /\ stopped = FALSE
    /\ tracker = TrackerConstructed

\* the state after both constructors
Built ==
    /\ activityMonitor = ActivityMonitorCreated(now)
    /\ mainWindow = [focused |-> TRUE, blurredAt |-> Null]
    /\ statsFile = NoStats
    /\ MonitorNew
    /\ timers = [NoTimers EXCEPT !["stateCheck"] = now + StateCheckMs]
    /\ rend = ControllerConstructed(now)
    /\ realTimelineData = [s \in {} |-> "no-data"]
    /\ localStorage = [d \in {} |-> [s \in {} |-> "no-data"]]

Constructed == now = StartClock /\ Built

\* the pointer rests away from the origin, a window is in the foreground
Desktop ==
    /\ mousePos = 10
    /\ curWindow = [title |-> "A", owner |-> "app1"]

\* the user was typing when the application started, or had been away for 5 s
UserAtStart == osLastInput \in {StartClock - ActiveThresholdMs, StartClock}

\* the platform offers any set of the window, idle and pointer adapters (both
\* idle libraries or neither), and every adapter that loads answers its calls
AdaptersGranted ==
    /\ libAvail \in {f \in [Libs -> BOOLEAN] : f["desktopIdle"] = f["realIdle"]}
    /\ probeOutcome = [l \in Libs |-> "ok"]

\* Fusion over a few seconds, with the user and other applications acting.
Init ==
    /\ Constructed
    /\ Desktop
    /\ UserAtStart
    /\ AdaptersGranted
    /\ horizon = StartClock + MaxSeconds * 1000
    /\ envBudget = MaxEnvEvents

Polls ==
    \/ IdlePoll
    \/ WindowPollCall
    \/ WindowPollResume
    \/ MousePoll
    \/ KeyboardPoll

Startup ==
    \/ LoadLibrary
    \/ StartCall
    \/ StartWake
    \/ ProbeResume
    \/ StartContinue

Renderer ==
    \/ OnActivityStatusChanged
    \/ OnNativeActivity
    \/ UiReady

Environment ==
    \/ \E p \in Positions : MouseMove(p)
    \/ KeyPress
    \/ \E w \in Windows : WindowChange(w)

Next ==
    \/ Tick
    \/ Startup
    \/ Polls
    \/ StatusUpdate
    \/ Renderer
    \/ ActivityStateUpdate
    \/ Environment

Spec == Init /\ [][Next]_vars

\* Fusion over more than five minutes in which nothing happens on the desktop.
InitLong ==
    /\ Constructed
    /\ Desktop
    /\ UserAtStart
    /\ AdaptersGranted
    /\ horizon = StartClock + fiveMinutes + MaxLongExtra * 1000
    /\ envBudget = 0

NextLong ==
    \/ Tick
    \/ Startup
    \/ Polls
    \/ StatusUpdate
    \/ Renderer
    \/ ActivityStateUpdate

SpecLong == InitLong /\ [][NextLong]_vars

\* The permission gate: every set of libraries, every outcome of their probe
\* calls, requests of the renderer at any moment, up to the first polls.
InitGate ==
    /\ Constructed
    /\ Desktop
    /\ osLastInput = StartClock
    /\ libAvail \in [Libs -> BOOLEAN]
    /\ probeOutcome \in {f \in [Libs -> Outcomes] : \A l \in Libs : ~libAvail[l] => f[l] = "ok"}
    /\ horizon = StartClock + GateSeconds * 1000
    /\ envBudget = 0

NextGate ==
    \/ Tick
    \/ Startup
    \/ StartFail
    \/ \E c \in IpcCallers : GetNativeActivityStats(c)
    \/ \E c \in Callers : WaiterResolve(c)
    \/ Polls
    \/ OnActivityStatusChanged
    \/ OnNativeActivity

SpecGate == InitGate /\ [][NextGate]_vars

(***************************************************************************)
(* The fused state and the samples                                         *)
(***************************************************************************)
\* a poll takes a qualifying sample in this step
QualifyingStep == sample' # sample /\ sample'.qualifying

ActivityChanged(m) == SelectSeq(m.emitted, LAMBDA e : e.ev = "activity-changed")

\* some polling timer of an adapter runs
AdapterRunning ==
    \E n \in {"idleCheck", "windowTracking", "activityCheck"} : timers[n] # Null

\* C6: at construction the state is Active and the last-activity time is the
\* construction time, in the monitor and in the renderer's controller.
C6_ConstructedActive ==
    startPc = "new" =>
        /\ mon.isActive
        /\ mon.lastActivity = now
        /\ rend.activityState = "active"
        /\ rend.lastActivityTime = now

\* C1: once the last qualifying sample is 5 s old (and the idle poll's period
\* has passed, and every callback that was due has run) the state is not
\* Active, whatever adapters are running.
C1_IdleAfterFiveSeconds ==
    ( /\ ~Pending
      /\ AdapterRunning
      /\ lastQualifying # Null
      /\ now - lastQualifying >= ActiveThresholdMs + IdlePollMs )
    => ~mon.isActive

\* C3: a qualifying sample that follows the previous one by less than 5 s finds
\* the state Active: it has not left Active in between.
C3_ActiveBetweenSamples ==
    [][ ( /\ QualifyingStep
          /\ lastQualifying # Null
          /\ now - lastQualifying < ActiveThresholdMs )
        => mon.isActive ]_vars

C2_InactiveAfterFiveMinutes ==
    ( /\ ~Pending
      /\ AdapterRunning
      /\ lastQualifying # Null
      /\ now - lastQualifying >= fiveMinutes + StateCheckMs )
    => rend.activityState = "inactive"

\* C4: the fused state enters Inactive from Idle only, never from Active, also
\* at a state check that finds five minutes already passed.
C4_InactiveOnlyFromIdle ==
    [][ (rend'.activityState = "inactive" /\ rend.activityState # "inactive")
        => rend.activityState = "idle" ]_vars

\* the controller has gone from Idle to Inactive at a state check
C4_Witness ==
    /\ rend.activityState = "inactive"
    /\ now - rend.lastActivityTime >= fiveMinutes
    /\ ~mon.isActive

(***************************************************************************)
(* The permission gate                                                     *)
(***************************************************************************)
\* the field of the report that belongs to a library
ReportKey(lib) == IF lib = "robot" THEN "robotjs" ELSE lib

Reported(report, lib) ==
    CASE ReportKey(lib) = "activeWin"   -> report.activeWin
      [] ReportKey(lib) = "desktopIdle" -> report.desktopIdle
      [] ReportKey(lib) = "realIdle"    -> report.realIdle
      [] OTHER                          -> report.robotjs

\* the probe has called the adapter and the call did this
Probed(lib, outcome) == adapterCalls[lib].probe > 0 /\ probeOutcome[lib] = outcome

\* the polling timers that call the adapter
TimersOf(lib) ==
    CASE lib = "activeWin" -> {"windowTracking"}
      [] lib = "robot"     -> {"activityCheck", "keyboardTracking"}
      [] OTHER             -> {"idleCheck", "keyboardTracking"}

\* C7: the probe calls each adapter at most once; an invocation that has
\* returned, returned the cached report; once the report is cached no
\* invocation calls an adapter or changes the report, and no invocation
\* starts a probe while one is running.
C7_ProbeOnce ==
    /\ [] ( /\ \A l \in Libs : adapterCalls[l].probe <= 1
            /\ Cardinality({c \in Callers : callers[c].pc = "probing"}) <= 1
            /\ \A c \in Callers : callers[c].pc = "done" =>
                   /\ perm.permissionsChecked
                   /\ callers[c].result = perm.permissionsResult )
    /\ [][ (perm.permissionsChecked \/ perm.permissionCheckInProgress) =>
              /\ perm.permissionsChecked => perm'.permissionsResult = perm.permissionsResult
              /\ \A l \in Libs :
                    adapterCalls'[l].probe = adapterCalls[l].probe
                    \/ (probePc = "awaitWin" /\ probePc' # "awaitWin") ]_vars

\* both invocations have returned the report of the one probe, which called
\* all four adapters
C7_Witness ==
    /\ \A c \in Callers : callers[c].pc = "done"
    /\ \A l \in Libs : adapterCalls[l].probe = 1
    /\ startPc = "started"

\* C8: when the robotjs probe call throws "accessibility access denied", the
\* cached report grants nothing, every invocation returns it, robotjs is not
\* called again and no polling timer of an adapter is started.
C8_RobotDenied ==
    (probePc = "done" /\ Probed("robot", "perm")) =>
        /\ perm.permissionsResult = Report(FALSE, FALSE, FALSE, FALSE)
        /\ perm.permissionsDenied
        /\ ~perm.permissionsGranted
        /\ \A c \in Callers : callers[c].pc = "done" =>
               callers[c].result = perm.permissionsResult
        /\ adapterCalls["robot"] = [probe |-> 1, poll |-> 0]
        /\ \A l \in Libs : ~loaded[l] /\ adapterCalls[l].poll = 0
        /\ \A n \in {"idleCheck", "windowTracking", "activityCheck", "keyboardTracking"} :
               timers[n] = Null

\* robotjs was denied while the other adapters answered; start() has finished
\* and a later request got the report
C8_Witness ==
    /\ Probed("robot", "perm")
    /\ \A l \in Libs \ {"robot"} : Probed(l, "ok")
    /\ startPc = "started"
    /\ \A c \in Callers : callers[c].pc = "done"

\* C9: an adapter whose probe call throws a permission error is reported not
\* granted, its instance is discarded and no poll calls it.
C9_DeniedAdapterDiscarded ==
    \A l \in Libs :
        (probePc = "done" /\ Probed(l, "perm")) =>
            /\ ~Reported(perm.permissionsResult, l)
            /\ ~loaded[l]
            /\ adapterCalls[l].poll = 0
            /\ \A n \in TimersOf(l) \ {"keyboardTracking"} : timers[n] = Null

\* C10 as stated: the report's entry of an adapter is decided by its own probe
\* call, and an adapter whose call succeeded stays usable.
C10_OwnProbeOnly ==
    probePc = "done" =>
        \A l \in Libs :
            /\ Reported(perm.permissionsResult, l) = Probed(l, "ok")
            /\ Probed(l, "ok") => loaded[l]

\* C10 amended: ... unless the robotjs probe call throws a permission error, in
\* which case no adapter is reported granted and every instance is discarded.
C10_OwnProbeUnlessRobotDenied ==
    probePc = "done" =>
        \A l \in Libs :
            IF Probed("robot", "perm")
            THEN ~Reported(perm.permissionsResult, l) /\ ~loaded[l]
            ELSE /\ Reported(perm.permissionsResult, l) = Probed(l, "ok")
                 /\ Probed(l, "ok") => loaded[l]

\* robotjs threw another error, the window adapter was denied, real-idle did
\* not load: desktop-idle alone is granted and is polled
C10_Witness ==
    /\ Probed("robot", "other")
    /\ Probed("activeWin", "perm")
    /\ ~libAvail["realIdle"]
    /\ perm.permissionsResult = Report(FALSE, TRUE, FALSE, FALSE)
    /\ adapterCalls["desktopIdle"].poll > 0

(***************************************************************************)
(* HybridActivityMonitor: stop                                             *)
(***************************************************************************)
\* the interval handles stop() clears
StopClears == {"activityCheck", "keyboardTracking", "windowTracking", "idleCheck",
               "statusUpdate"}

\* main.js (before-quit) calls stop() between two callbacks, at any moment after
\* the monitor was constructed
Stop ==
    /\ startPc # "new"
    /\ timers' = [n \in TimerNames |-> IF n \in StopClears THEN Null ELSE timers[n]]
    /\ mon' = Emit(Enter(mon), Event("stopped", "", mon.isActive, FALSE, now))
    /\ stopped' = TRUE
    /\ UNCHANGED <<envVars, activityMonitor, mainWindow, statsFile, options, tracker, loaded,
                   libStage,
                   perm, probePc, callers, startPc, winPending, adapterCalls, sample,
                   lastQualifying, ipcQueue, rendVars>>

\* All adapters load and answer; stop() is called at any moment of the start-up
\* and of the first polls.
InitStop ==
    /\ Constructed
    /\ Desktop
    /\ osLastInput = StartClock
    /\ libAvail = [l \in Libs |-> TRUE]
    /\ probeOutcome = [l \in Libs |-> "ok"]
    /\ horizon = StartClock + StopSeconds * 1000
    /\ envBudget = 0

NextStop ==
    \/ Tick
    \/ Startup
    \/ Polls
    \/ StatusUpdate
    \/ OnActivityStatusChanged
    \/ OnNativeActivity
    \/ Stop

SpecStop == InitStop /\ [][NextStop]_vars

\* C12: once stop() has returned, none of the monitor's intervals is set and no
\* window poll is in flight, whenever stop() was called.
C12_NoTimerAfterStop ==
    stopped =>
        /\ \A n \in StopClears : timers[n] = Null
        /\ winPending = NoPending

\* C11: a polling timer runs only for an adapter that is loaded and that the
\* probe reported granted.
C11_TimerOnlyIfGranted ==
    startPc = "started" =>
        /\ timers["windowTracking"] # Null =>
               loaded["activeWin"] /\ perm.permissionsResult.activeWin
        /\ timers["activityCheck"] # Null =>
               loaded["robot"] /\ perm.permissionsResult.robotjs
        /\ timers["idleCheck"] # Null =>
               \/ loaded["desktopIdle"] /\ perm.permissionsResult.desktopIdle
               \/ loaded["realIdle"] /\ perm.permissionsResult.realIdle

(***************************************************************************)
(* The timeline: the controller's intervals, the monitor with the idle-time *)
(* libraries, and the main process's own monitoring, over a minute that     *)
(* follows an application start.                                            *)
(***************************************************************************)
\* seconds explored by the specification of the timeline
DaySeconds   == 66
\* key presses and openings of the activity tab in the timeline specification
MaxDayEvents == 1

\* h:m:s of day 0
Clock(h, m, s) == ((h * 60 + m) * 60 + s) * 1000

\* the application starts early in the day, before a segment ends, before midnight
DayStarts == {Clock(0, 14, 30), Clock(9, 9, 30), Clock(23, 59, 30)}

NoData == [s \in {} |-> "no-data"]

\* what a run of the application earlier on the day of t left in localStorage
EarlierRun(t) == (Today(t) :> ((getCurrentSegment(t) - 1) :> "active"))

\* The application was started MonitorDelayMs ago (startActivityMonitoring ran
\* then), the user typing; the monitor and the controller are constructed now.
AppStarted ==
    /\ now \in DayStarts
    /\ Desktop
    /\ osLastInput = now
    /\ probeOutcome = [l \in Libs |-> "ok"]
    /\ activityMonitor = MonitoringStarted(ActivityMonitorCreated(now - MonitorDelayMs),
                                           NoStats, now - MonitorDelayMs)
    /\ mainWindow = [focused |-> TRUE, blurredAt |-> Null]
    /\ statsFile = NoStats
    /\ MonitorNew
    /\ timers = MonitoringTimers([NoTimers EXCEPT
                                     !["stateCheck"] = now + StateCheckMs,
                                     !["statsRefresh"] = now + StatsRefreshMs,
                                     !["realTimeSave"] = now + RealTimeSaveMs,
                                     !["segmentRefresh"] = now + SegmentRefreshMs],
                                 now - MonitorDelayMs)
    /\ realTimelineData = NoData
    /\ localStorage \in {[d \in {} |-> NoData], EarlierRun(now)}

\* the platform offers the idle-time libraries only
AppRunning ==
    /\ AppStarted
    /\ libAvail = [l \in Libs |-> l \in {"desktopIdle", "realIdle"}]

\* A minute of the running application, the controller's init() completed; the
\* user presses a key or opens the activity tab at any moment.
InitDay ==
    /\ AppRunning
    /\ horizon = now + DaySeconds * 1000
    /\ envBudget = MaxDayEvents
    /\ rend = [ControllerConstructed(now) EXCEPT !.uiReady = TRUE]

NextDay ==
    \/ Tick
    \/ LoadLibrary
    \/ StartCall
    \/ StartWake
    \/ StartContinue
    \/ IdlePoll
    \/ StatusUpdate
    \/ CheckActivity
    \/ SimulateActivityDetection
    \/ SaveActivityStats
    \/ OnActivityStatusChanged
    \/ OnActivityUpdate
    \/ ActivityStateUpdate
    \/ StatsRefresh
    \/ RealTimeSave
    \/ SegmentRefresh
    \/ KeyPress
    \/ OpenActivityTab

SpecDay == InitDay /\ [][NextDay]_vars

\* More than five minutes of the running application with the user away; the
\* controller's init() has completed, or it never does.
InitIdle ==
    /\ AppRunning
    /\ horizon = now + fiveMinutes + MaxLongExtra * 1000
    /\ envBudget = 0
    /\ rend \in {[ControllerConstructed(now) EXCEPT !.uiReady = u] : u \in BOOLEAN}

NextIdle ==
    \/ Tick
    \/ LoadLibrary
    \/ StartCall
    \/ StartWake
    \/ StartContinue
    \/ IdlePoll
    \/ StatusUpdate
    \/ CheckActivity
    \/ SimulateActivityDetection
    \/ SaveActivityStats
    \/ OnActivityStatusChanged
    \/ OnActivityUpdate
    \/ ActivityStateUpdate
    \/ StatsRefresh
    \/ RealTimeSave
    \/ SegmentRefresh

SpecIdle == InitIdle /\ [][NextIdle]_vars

\* the step that stores a timeline under today's key for the first time, the
\* application having been started on an earlier day
FirstSaveOfNewDay ==
    /\ Today(activityMonitor.startTime) < Today(now)
    /\ Today(now) \notin DOMAIN localStorage
    /\ Today(now) \in DOMAIN localStorage'

\* C13: when the date changes while the application runs, the first timeline
\* write of the new day starts from an empty day: what it stores under the new
\* day's key holds no segment but the one it writes, and the daily active and
\* idle totals hold no more than the run of checkActivity that caused the write
C13_NewDayStartsEmpty ==
    [][FirstSaveOfNewDay =>
          /\ DOMAIN localStorage'[Today(now)] \subseteq {getCurrentSegment(now)}
          /\ activityMonitor'.activeTime + activityMonitor'.idleTime <= MonitorStepS
          /\ activityMonitor'.lastReset = Today(now)]_vars

\* C14: what is persisted for today survives every order of timeline writes
\* and loads after a restart: no step removes a segment stored under today's
\* key, or changes one other than the segment of the current moment
C14_StoredDayKept ==
    [][\A s \in (IF Today(now) \in DOMAIN localStorage
                 THEN DOMAIN localStorage[Today(now)] ELSE {}) :
          /\ s \in DOMAIN localStorage'[Today(now)]
          /\ s # getCurrentSegment(now) =>
                 localStorage'[Today(now)][s] = localStorage[Today(now)][s]]_vars


\* no segment other than the one of the current moment is removed or changed
OtherSegmentsKept ==
    \A s \in DOMAIN realTimelineData :
        s # getCurrentSegment(now) =>
            s \in DOMAIN realTimelineData' /\ realTimelineData'[s] = realTimelineData[s]

\* the step is OpenActivityTab: the only environment event that is not an input
TabOpened == envBudget' # envBudget /\ osLastInput' = osLastInput

\* C15 as stated: every step changes only the segment of the current moment;
\* a segment of another bucket that holds a state is never modified afterwards
C15_OnlyCurrentSegment == [][OtherSegmentsKept]_vars

\* C15: every write of updateActivityTimeline, recordActivityEvent and
\* updateCurrentSegmentState, and the gap-fill, changes no segment that holds a
\* state other than the segment of the current moment; only loading the stored
\* timeline replaces such segments
C15_WritesOnlyCurrentSegment == [][~TabOpened => OtherSegmentsKept]_vars

\* the current segment was written and saved after the segment before it
C15_Witness ==
    LET cur == getCurrentSegment(now)
    IN  /\ {cur - 1, cur} \subseteq DOMAIN realTimelineData
        /\ Today(now) \in DOMAIN localStorage
        /\ localStorage[Today(now)] = realTimelineData
        /\ now > horizon - DaySeconds * 1000 + SegmentRefreshMs


\* the step is a run of the minute interval
MinuteTick == timers'["realTimeSave"] # timers["realTimeSave"]

\* C16: the gap-fill of the minute tick keeps every recorded segment as it is,
\* and a segment it writes had no state, is not later than the current segment
\* and starts less than 30 minutes before the tick
C16_GapFillOnlyRecentGaps ==
    [][MinuteTick =>
          /\ \A s \in DOMAIN realTimelineData :
                 s \in DOMAIN realTimelineData'
                     /\ realTimelineData'[s] = realTimelineData[s]
          /\ \A s \in DOMAIN realTimelineData' \ DOMAIN realTimelineData :
                 /\ s <= getCurrentSegment(now)
                 /\ now - SegmentStart(s, now) < FillWindowMs
                 /\ now - SegmentStart(s, now) >= 0]_vars

\* a minute tick has filled a gap next to a recorded segment: the filled
\* segment is in memory and not yet in storage
C16_Witness ==
    /\ Today(now) \in DOMAIN localStorage
    /\ getCurrentSegment(now) \in DOMAIN localStorage[Today(now)]
    /\ \E s \in DOMAIN realTimelineData :
          /\ s < getCurrentSegment(now)
          /\ s \notin DOMAIN localStorage[Today(now)]


\* the step gives the segment of the current moment a state it did not hold
CurrentSegmentWritten ==
    LET cur == getCurrentSegment(now)
    IN  /\ cur \in DOMAIN realTimelineData'
        /\ cur \in DOMAIN realTimelineData => realTimelineData'[cur] # realTimelineData[cur]

\* C17: whichever routine writes the segment of the current moment (the
\* handlers of the three IPC channels, the 10 s refresh, the 10 s state check),
\* the state it stores is the fused activity state of that moment
C17_SegmentIsFusedState ==
    [][CurrentSegmentWritten /\ ~MinuteTick /\ ~TabOpened =>
          realTimelineData'[getCurrentSegment(now)] = rend'.activityState]_vars


\* the map of the latest save
LastStored ==
    IF DOMAIN localStorage = {} THEN NoData
    ELSE localStorage[CHOOSE d \in DOMAIN localStorage :
                          \A e \in DOMAIN localStorage : e <= d]

\* the segments whose state exists in memory only
Unsaved ==
    {s \in DOMAIN realTimelineData :
        s \notin DOMAIN LastStored \/ LastStored[s] # realTimelineData[s]}

FusedChanged == rend'.activityState # rend.activityState

\* the instant of the latest run of the minute interval
LastMinuteTick == timers["realTimeSave"] - RealTimeSaveMs

MaxDay == 1

\* the seconds of a minute at which the refresh runs
SampleSeconds == {0, 30, 59}

\* the instant of h:m:s on day d
WallClock(d, h, m, s) == d * MinutesPerDay * MinuteMs + Clock(h, m, s)

InitSegment ==
    /\ now \in {WallClock(d, h, m, s) :
                   d \in 0..MaxDay, h \in 0..23, m \in 0..59, s \in SampleSeconds}
    /\ horizon = now
    /\ Desktop
    /\ osLastInput = now
    /\ libAvail = [l \in Libs |-> FALSE]
    /\ probeOutcome = [l \in Libs |-> "ok"]
    /\ envBudget = 0
    /\ activityMonitor = ActivityMonitorCreated(now)
    /\ mainWindow = [focused |-> TRUE, blurredAt |-> Null]
    /\ statsFile = NoStats
    /\ MonitorNew
    /\ timers = [NoTimers EXCEPT !["segmentRefresh"] = now]
    /\ rend = [ControllerConstructed(now) EXCEPT !.uiReady = TRUE]
    /\ realTimelineData = NoData
    /\ localStorage = [d \in {} |-> NoData]

NextSegment == SegmentRefresh

SpecSegment == InitSegment /\ [][NextSegment]_vars

\* the wall clock reads h:m
WallClockIs(h, m) ==
    \E d \in 0..MaxDay : \E s \in SampleSeconds : now = WallClock(d, h, m, s)

\* C19: whatever the hour h in 0..23 and the minute m in 0..59 of the wall
\* clock, on any day and at any second, the segment that is written is
\* floor((h * 60 + m) / 10) and lies in 0..143; 09:05 gives 54, 00:00 gives 0,
\* 23:59 gives 143
C19_SegmentIndex ==
    \A h \in 0..23 : \A m \in 0..59 :
        WallClockIs(h, m) =>
            \A i \in DOMAIN realTimelineData :
                /\ i = (h * 60 + m) \div 10
                /\ i \in 0..143
                /\ h = 9 /\ m = 5 => i = 54
                /\ h = 0 /\ m = 0 => i = 0
                /\ h = 23 /\ m = 59 => i = 143

\* the refresh has written the last segment of the day at 23:59
C19_Witness == WallClockIs(23, 59) /\ DOMAIN realTimelineData = {143}


(***************************************************************************)
(* No adapter: none of the libraries loads.  What is left is the activity   *)
(* monitoring of main.js, which looks at the focus of the tracker's window. *)
(***************************************************************************)
\* seconds explored by the specification without adapters
FallbackSeconds == 22
\* changes of the window focus in the specification without adapters
MaxFocusEvents  == 2
\* the slack allowed to the 5 s threshold: one period of checkActivity
FallbackSlackMs == MonitorCheckMs

InitFallback ==
    /\ AppStarted
    /\ libAvail = [l \in Libs |-> FALSE]
    /\ horizon = now + FallbackSeconds * 1000
    /\ envBudget = MaxFocusEvents
    /\ rend = [ControllerConstructed(now) EXCEPT !.uiReady = TRUE]

NextFallback ==
    \/ Tick
    \/ LoadLibrary
    \/ StartCall
    \/ StartWake
    \/ StartContinue
    \/ StatusUpdate
    \/ CheckActivity
    \/ SimulateActivityDetection
    \/ OnActivityUpdate
    \/ ActivityStateUpdate
    \/ SegmentRefresh
    \/ FocusChange

SpecFallback == InitFallback /\ [][NextFallback]_vars


\* C20: with no adapter usable, the state is Active only while the tracker's
\* window is focused: once the window has been without focus for the 5 s
\* threshold (and one period of the check), neither the controller's fused
\* state nor the isActive the main process reports is Active
C20_ActiveOnlyWhileFocused ==
    (/\ ~mainWindow.focused
     /\ now - mainWindow.blurredAt >= ActiveThresholdMs + FallbackSlackMs
     /\ ~Pending)
        => /\ rend.activityState # "active"
           /\ ~rend.activityStats.isActive
           /\ ~activityMonitor.isActive


\* the probe has reported that no adapter is usable
OverallNone == perm.permissionsResult.overall = "none"

\* C21: when the probe's overall result is none and the tracker's window is not
\* focused, no step (a timer tick of the monitor, of main.js or of the
\* controller) marks the user Active, refreshes a last-activity time or
\* increments an activity total
C21_NoFabricatedActivity ==
    [][OverallNone /\ ~mainWindow.focused /\ ~mainWindow'.focused =>
          /\ mon'.isActive => mon.isActive
          /\ mon'.lastActivity = mon.lastActivity
          /\ activityMonitor'.isActive => activityMonitor.isActive
          /\ activityMonitor'.lastActivity = activityMonitor.lastActivity
          /\ activityMonitor'.activeTime = activityMonitor.activeTime]_vars


(***************************************************************************)
(* Transient failures: all adapters load and pass the probe; afterwards any *)
(* call of any poll may throw.                                              *)
(***************************************************************************)
\* seconds explored by the specification of transient failures
FaultSeconds == 7

InitFault ==
    /\ Constructed
    /\ Desktop
    /\ UserAtStart
    /\ libAvail = [l \in Libs |-> TRUE]
    /\ probeOutcome = [l \in Libs |-> "ok"]
    /\ horizon = StartClock + FaultSeconds * 1000
    /\ envBudget = 0

PollsThrowing ==
    \/ \E thrown \in SUBSET IdleCalls : IdlePollThrows(thrown)
    \/ WindowPollThrows
    \/ MousePollThrows
    \/ \E posThrows, idleThrows \in BOOLEAN : KeyboardPollThrows(posThrows, idleThrows)

NextFault ==
    \/ Tick
    \/ Startup
    \/ Polls
    \/ PollsThrowing
    \/ StatusUpdate
    \/ OnActivityStatusChanged
    \/ OnNativeActivity

SpecFault == InitFault /\ [][NextFault]_vars


\* the monitor emitted an activity-changed event in the last callback
EmitsActivityChanged(m) ==
    \E i \in 1..Len(m.emitted) : m.emitted[i].ev = "activity-changed"

\* every timer that was set is still set
TimersKeepRunning == \A n \in TimerNames : timers[n] # Null => timers'[n] # Null

\* C22: a poll in which an adapter call throws leaves the activity state, the
\* last-activity time and all counters unchanged, emits no activity-changed event
\* and leaves every timer set
C22_ThrowingPollDropsSample ==
    [][PollsThrowing =>
          /\ mon'.isActive = mon.isActive
          /\ mon'.lastActivity = mon.lastActivity
          /\ mon'.stats = mon.stats
          /\ ~EmitsActivityChanged(mon')
          /\ TimersKeepRunning]_vars

\* C22 (amended): a poll in which every call that would supply a reading throws
\* leaves the activity state, the last-activity time and all counters unchanged,
\* emits no activity-changed event and leaves every timer set
C22_DroppedSampleChangesNothing ==
    [][PollsThrowing /\ sample'.src = "thrown-dropped" =>
          /\ mon'.isActive = mon.isActive
          /\ mon'.lastActivity = mon.lastActivity
          /\ mon'.stats = mon.stats
          /\ ~EmitsActivityChanged(mon')
          /\ TimersKeepRunning]_vars


\* a poll lost every reading while the user was Active
C22_Witness == sample.src = "thrown-dropped" /\ mon.isActive /\ startPc = "started"


\* the monitor's state flips in this step
IntoActive == ~mon.isActive /\ mon'.isActive
OutOfActive == mon.isActive /\ ~mon'.isActive

\* C23: each transition into Active increments totalSessions by one and sets
\* sessionStartTime to now; each transition out of Active adds now - sessionStartTime
\* to totalActiveTime and sets averageSessionLength to totalActiveTime / totalSessions;
\* no other step changes totalSessions or totalActiveTime
C23_SessionAccounting ==
    [][/\ IntoActive =>
             /\ mon'.stats.totalSessions = mon.stats.totalSessions + 1
             /\ mon'.sessionStartTime = now
       /\ OutOfActive =>
             /\ mon'.stats.totalActiveTime =
                    mon.stats.totalActiveTime + (now - mon.sessionStartTime)
             /\ mon'.stats.averageSessionLength =
                    <<mon'.stats.totalActiveTime, mon'.stats.totalSessions>>
       /\ ~IntoActive => mon'.stats.totalSessions = mon.stats.totalSessions
       /\ ~OutOfActive => mon'.stats.totalActiveTime = mon.stats.totalActiveTime]_vars

\* a second session has ended
C23_Witness ==
    /\ ~mon.isActive
    /\ mon.stats.totalSessions >= 2
    /\ mon.stats.averageSessionLength = <<mon.stats.totalActiveTime, mon.stats.totalSessions>>
    /\ mon.stats.totalActiveTime > 0


(***************************************************************************)
(* Window switches and resetStats: the window and idle adapters work, the   *)
(* foreground window changes between applications, the user resets the      *)
(* statistics.                                                              *)
(***************************************************************************)
\* seconds explored by the specification of window switches and resets
ResetSeconds == 7
\* window changes and resets of the statistics
MaxResetEvents == 2

\* foreground windows: two applications may show the same title
DesktopWindows == Windows \cup { [title |-> "A", owner |-> "app2"] }

\* HybridActivityMonitor.resetStats
resetStats(m) ==
    Emit([m EXCEPT !.stats = NewStats],
         Event("stats-reset", "", FALSE, FALSE, 0))

\* the reset-native-activity-stats handler of main.js
ResetNativeActivityStats ==
    /\ ~Pending
    /\ envBudget > 0
    /\ envBudget' = envBudget - 1
    /\ mon' = resetStats(Enter(mon))
    /\ UNCHANGED <<mainVars, now, horizon, osLastInput, mousePos, curWindow, libAvail,
                   probeOutcome, options, tracker, loaded, libStage, perm, probePc, callers,
                   startPc, timers, winPending, adapterCalls, sample, lastQualifying,
                   ipcQueue, rendVars>>

InitReset ==
    /\ Constructed
    /\ Desktop
    /\ UserAtStart
    /\ libAvail = [l \in Libs |-> l # "robot"]
    /\ probeOutcome = [l \in Libs |-> "ok"]
    /\ horizon = StartClock + ResetSeconds * 1000
    /\ envBudget = MaxResetEvents

NextReset ==
    \/ Tick
    \/ Startup
    \/ IdlePoll
    \/ WindowPollCall
    \/ WindowPollResume
    \/ StatusUpdate
    \/ OnActivityStatusChanged
    \/ OnNativeActivity
    \/ \E w \in DesktopWindows : WindowChange(w)
    \/ ResetNativeActivityStats

SpecReset == InitReset /\ [][NextReset]_vars

\* the window poll observes a window of another title or another owner
IdentityChanged ==
    /\ winPending # NoPending
    /\ winPending' = NoPending
    /\ winPending # NoWindow
    /\ \/ winPending.title # mon.lastActiveWindow.title
       \/ winPending.owner # mon.lastActiveWindow.owner

RECURSIVE SumOf(_)
SumOf(usage) ==
    IF DOMAIN usage = {} THEN 0
    ELSE LET a == CHOOSE x \in DOMAIN usage : TRUE
         IN  usage[a] + SumOf([x \in DOMAIN usage \ {a} |-> usage[x]])

\* C24: every window poll at which the foreground window's identity (title + owner)
\* differs from the last observed one increments windowSwitches and the usage
\* counter of the new window's application by one, and windowSwitches equals the
\* sum of the per-application counters
C24_IdentityChangeCounted ==
    [][/\ IdentityChanged =>
             /\ mon'.stats.windowSwitches = mon.stats.windowSwitches + 1
             /\ UsageOf(mon'.stats.applicationUsage, winPending.owner) =
                    UsageOf(mon.stats.applicationUsage, winPending.owner) + 1
       /\ mon'.stats.windowSwitches = SumOf(mon'.stats.applicationUsage)]_vars


\* handleActivityEnd assigned averageSessionLength in this step
Recomputed == OutOfActive /\ mon.sessionStartTime # Null

\* C26: whenever averageSessionLength is recomputed, totalSessions is at least 1 and
\* the quotient stored is totalActiveTime / totalSessions, also when the statistics
\* were reset while the session was in progress
C26_AverageWellDefined ==
    [][Recomputed =>
          /\ mon'.stats.totalSessions >= 1
          /\ mon'.stats.averageSessionLength =
                 <<mon'.stats.totalActiveTime, mon'.stats.totalSessions>>]_vars


\* the field of the report and the timer of start() that belong to a library
ReportField(l) == IF l = "robot" THEN "robotjs" ELSE l

TimerOf(l) ==
    CASE l = "activeWin" -> "windowTracking"
      [] l = "robot"     -> "activityCheck"
      [] OTHER           -> "idleCheck"

\* C25: whatever the order of the first checkPermissions() call and the library
\* loading, once start() has finished and every import has settled, each adapter
\* that loaded and answers its calls is granted in the cached report and has its
\* timer
C25_LoadOrderIrrelevant ==
    (/\ startPc = "started"
     /\ libStage = Len(LoadOrder)
     /\ \A l \in Libs : probeOutcome[l] = "ok")
    => \A l \in Libs :
          loaded[l] => /\ perm.permissionsResult[ReportField(l)]
                       /\ timers[TimerOf(l)] # Null


\* a run of the pointer poll
PointerPollStep ==
    /\ timers["activityCheck"] # Null
    /\ timers'["activityCheck"] = timers["activityCheck"] + MousePollMs

\* the pointer left its first position after the previous pointer poll (that poll
\* ran one period before the deadline of this one) and no other input followed
MovedSincePointerPoll ==
    /\ mon.stats.mouseMovements >= 1
    /\ mousePos # 10
    /\ envBudget = MaxEnvEvents - 1
    /\ osLastInput >= timers["activityCheck"] - MousePollMs

\* C27: a change of the pointer position between two consecutive pointer polls is
\* counted as a mouse movement at the next pointer poll, whatever the order of the
\* pointer poll and the keyboard poll
C27_EveryMoveCounted ==
    [][PointerPollStep /\ MovedSincePointerPoll =>
          /\ mon'.stats.mouseMovements = mon.stats.mouseMovements + 1
          /\ \E i \in 1..Len(mon'.emitted) : mon'.emitted[i].ev = "mouse-activity"]_vars


(***************************************************************************)
(* main.js: start-activity-monitoring and stop-activity-monitoring.  The   *)
(* handle of the 5 s interval is not kept: "simulate" is the interval the   *)
(* last start created, "simulateLeaked" the one an earlier start created.   *)
(***************************************************************************)
\* seconds explored by the specification of start/stop cycles
CycleSeconds == 12
\* start and stop requests of the renderer
MaxCycleEvents == 2

\* the intervals after startActivityMonitoring ran at t: the earlier 5 s interval,
\* if there is one, keeps running beside the new one
RestartedTimers(tm, t) ==
    MonitoringTimers([tm EXCEPT !["simulateLeaked"] = tm["simulate"]], t)

\* ipcMain.handle('start-activity-monitoring')
StartActivityMonitoring ==
    /\ ~Pending
    /\ envBudget > 0
    /\ ~activityMonitor.isMonitoring
    /\ timers["simulateLeaked"] = Null
    /\ envBudget' = envBudget - 1
    /\ activityMonitor' = MonitoringStarted(activityMonitor, statsFile, now)
    /\ timers' = RestartedTimers(timers, now)
    /\ UNCHANGED <<mainWindow, stopped, statsFile, now, horizon, osLastInput, mousePos,
                   curWindow, libAvail, probeOutcome, options, tracker, mon, loaded, libStage, perm,
                   probePc, callers, startPc, winPending, adapterCalls, sample,
                   lastQualifying, ipcQueue, rendVars>>

\* ipcMain.handle('stop-activity-monitoring'): clears intervals.monitor and
\* intervals.save, then saveActivityStats()
StopActivityMonitoring ==
    /\ ~Pending
    /\ envBudget > 0
    /\ activityMonitor.isMonitoring
    /\ envBudget' = envBudget - 1
    /\ activityMonitor' = [activityMonitor EXCEPT !.isMonitoring = FALSE]
    /\ timers' = [timers EXCEPT !["monitor"] = Null, !["save"] = Null]
    /\ statsFile' = [ activeTime |-> activityMonitor.activeTime,
                      idleTime   |-> activityMonitor.idleTime,
                      lastReset  |-> activityMonitor.lastReset ]
    /\ UNCHANGED <<mainWindow, stopped, now, horizon, osLastInput, mousePos,
                   curWindow, libAvail, probeOutcome, options, tracker, mon, loaded, libStage, perm,
                   probePc, callers, startPc, winPending, adapterCalls, sample,
                   lastQualifying, ipcQueue, rendVars>>

\* a run of the 5 s interval of an earlier start
SimulateLeaked ==
    /\ Due("simulateLeaked")
    /\ timers' = Again("simulateLeaked", SimulateMs)
    /\ activityMonitor' = IF mainWindow.focused
                          THEN [activityMonitor EXCEPT !.lastActivity = now]
                          ELSE activityMonitor
    /\ UNCHANGED <<mainWindow, statsFile, ipcQueue>>
    /\ MainFrame

InitCycle ==
    /\ AppStarted
    /\ libAvail = [l \in Libs |-> FALSE]
    /\ horizon = now + CycleSeconds * 1000
    /\ envBudget = MaxCycleEvents
    /\ rend = [ControllerConstructed(now) EXCEPT !.uiReady = TRUE]

NextCycle ==
    \/ Tick
    \/ LoadLibrary
    \/ StartCall
    \/ StartWake
    \/ StartContinue
    \/ StatusUpdate
    \/ CheckActivity
    \/ SimulateActivityDetection
    \/ SimulateLeaked
    \/ OnActivityUpdate
    \/ ActivityStateUpdate
    \/ SegmentRefresh
    \/ StartActivityMonitoring
    \/ StopActivityMonitoring

SpecCycle == InitCycle /\ [][NextCycle]_vars

\* the timers startActivityMonitoring creates
MonitoringTimerNames == {"monitor", "save", "simulate", "simulateLeaked"}

\* C28: after stopActivityMonitoring() no timer created by startActivityMonitoring()
\* remains scheduled, and after any number of start/stop cycles at most one
\* activity-check timer, one save timer and one focus-check timer are running
C28_StopLeavesNoTimer ==
    /\ ~activityMonitor.isMonitoring =>
           \A n \in MonitoringTimerNames : timers[n] = Null
    /\ timers["simulateLeaked"] = Null


(***************************************************************************)
(* The permission gate with the event loop running: a continuation or a     *)
(* timer that is ready runs.                                               *)
(***************************************************************************)
SpecGateFair == SpecGate /\ WF_vars(NextGate)

\* the probe is between its first statement and its last
ProbeRunning == probePc = "awaitWin"

\* C29: every checkPermissions() call eventually resolves with a report, however
\* a probe fails, and permissionCheckInProgress is false whenever no probe runs
C29_EveryCallResolves ==
    /\ [](~ProbeRunning => ~perm.permissionCheckInProgress)
    /\ [](\A c \in Callers : callers[c].pc # "rejected")
    /\ \A c \in Callers :
          (callers[c].pc \in {"probing", "waiting"}) ~> (callers[c].pc = "done")


(***************************************************************************)
(* background.js: pausing and resuming, the updateSettings message.  Each   *)
(* action is one handler up to its next await.                              *)
(***************************************************************************)
\* hours explored by the specification of the browser extension
MaxTrackerHours == 3
\* messages the popup sends
MaxTrackerMessages == 3
\* request.hours || 2: the popup sends 2
PauseHours == {2}

\* setupAlarms, after its await: the two periodic alarms, if tracking is enabled
AlarmsCreated(alarms, settings) ==
    IF settings.enabled
    THEN [alarms EXCEPT !.hourlyProgress = TRUE, !.workingHoursCheck = TRUE]
    ELSE alarms

\* { ...settings, paused: true, pauseUntil }
Paused(settings, until) == [settings EXCEPT !.paused = TRUE, !.pauseUntil = until]

\* { ...settings, paused: false, pauseUntil: null }
Resumed(settings) == [settings EXCEPT !.paused = FALSE, !.pauseUntil = Null]

\* no handler is between two awaits
TrackerQuiet ==
    /\ tracker.pausePc = "idle"
    /\ tracker.updatePc = "idle"
    /\ tracker.resumePc = "idle"

ResumeDue ==
    /\ tracker.alarms.resumeTracking # Null
    /\ tracker.alarms.resumeTracking <= tracker.clock

\* an hour passes
TrackerTick ==
    /\ TrackerQuiet
    /\ ~ResumeDue
    /\ tracker.clock < MaxTrackerHours
    /\ tracker' = [tracker EXCEPT !.clock = @ + 1]
    /\ UNCHANGED desktopVars

\* the popup opens: loadSettings() asks getSettings
PopupLoads ==
    /\ tracker.popup # tracker.settings
    /\ tracker' = [tracker EXCEPT !.popup = tracker.settings]
    /\ UNCHANGED desktopVars

\* the popup sends updateSettings with its this.settings: handleMessage stores
\* request.settings
UpdateSettings(enabled) ==
    /\ tracker.updatePc = "idle"
    /\ tracker.messages < MaxTrackerMessages
    /\ LET request == [tracker.popup EXCEPT !.enabled = enabled]
       IN  tracker' = [tracker EXCEPT !.popup = request,
                                      !.settings = request,
                                      !.updatePc = "stored",
                                      !.messages = @ + 1]
    /\ UNCHANGED desktopVars

\* setupAlarms up to its await: chrome.alarms.clearAll()
SetupAlarmsClear ==
    /\ tracker.updatePc = "stored"
    /\ tracker' = [tracker EXCEPT !.alarms = NoAlarms, !.updatePc = "cleared"]
    /\ UNCHANGED desktopVars

\* setupAlarms after its await
SetupAlarmsCreate ==
    /\ tracker.updatePc = "cleared"
    /\ tracker' = [tracker EXCEPT !.alarms = AlarmsCreated(@, tracker.settings),
                                  !.updatePc = "idle"]
    /\ UNCHANGED desktopVars

\* the popup sends pauseTracking: the handler awaits the stored settings
PauseTracking(hours) ==
    /\ tracker.pausePc = "idle"
    /\ tracker.messages < MaxTrackerMessages
    /\ tracker.clock + hours <= MaxTrackerHours
    /\ tracker' = [tracker EXCEPT !.pausePc = "read", !.pauseHours = hours,
                                  !.messages = @ + 1]
    /\ UNCHANGED desktopVars

\* pauseTracking after the read: computes pauseUntil and stores the settings
PauseStore ==
    /\ tracker.pausePc = "read"
    /\ LET until == tracker.clock + tracker.pauseHours
       IN  tracker' = [tracker EXCEPT !.settings = Paused(@, until),
                                      !.pauseUntil = until,
                                      !.pausePc = "written"]
    /\ UNCHANGED desktopVars

\* pauseTracking after the write: creates the alarm and adds a listener
PauseArm ==
    /\ tracker.pausePc = "written"
    /\ tracker' = [tracker EXCEPT !.alarms.resumeTracking = tracker.pauseUntil,
                                  !.listeners = @ + 1,
                                  !.pausePc = "idle"]
    /\ UNCHANGED desktopVars

\* the resumeTracking alarm fires: the listeners call resumeTracking, which
\* awaits the stored settings
ResumeAlarm ==
    /\ ResumeDue
    /\ tracker.resumePc = "idle"
    /\ tracker' = [tracker EXCEPT !.alarms.resumeTracking = Null,
                                  !.resumePc = IF tracker.listeners > 0
                                               THEN "read" ELSE "idle"]
    /\ UNCHANGED desktopVars

\* resumeTracking after the read
ResumeStore ==
    /\ tracker.resumePc = "read"
    /\ tracker' = [tracker EXCEPT !.settings = Resumed(@), !.resumePc = "idle"]
    /\ UNCHANGED desktopVars

\* what the extension does by itself: time, alarms, continuations
TrackerRuns ==
    \/ TrackerTick
    \/ SetupAlarmsClear
    \/ SetupAlarmsCreate
    \/ PauseStore
    \/ PauseArm
    \/ ResumeAlarm
    \/ ResumeStore

\* the extension runs in the browser; the desktop application is left as built
InitTracker ==
    /\ Constructed
    /\ Desktop
    /\ osLastInput = StartClock
    /\ libAvail = [l \in Libs |-> FALSE]
    /\ probeOutcome = [l \in Libs |-> "ok"]
    /\ horizon = StartClock
    /\ envBudget = 0

NextTracker ==
    \/ TrackerRuns
    \/ PopupLoads
    \/ \E enabled \in BOOLEAN : UpdateSettings(enabled)
    \/ \E hours \in PauseHours : PauseTracking(hours)

SpecTracker == InitTracker /\ [][NextTracker]_vars

\* alarms fire and awaited promises settle
SpecTrackerFair == SpecTracker /\ WF_vars(TrackerRuns)

\* C30: after pauseTracking(hours), tracking is eventually resumed: settings.paused
\* becomes false and pauseUntil is cleared, whatever updateSettings messages arrive
C30_PauseEventuallyEnds ==
    [](tracker.settings.paused =>
          <>(~tracker.settings.paused /\ tracker.settings.pauseUntil = Null))

====
